---- MODULE Spec2Model ----
(***************************************************************************)
(* Verification model of the traceway daemon: the in-memory span store     *)
(* with its write-through backend (crates/storage), the domain state       *)
(* machines (crates/trace), the HTTP handlers that drive the store under   *)
(* its RwLock (crates/api) and the broadcast event channel.                *)
(***************************************************************************)
EXTENDS Integers, Sequences, FiniteSets, TLC

\* ---------------------------------------------------------------- bounds
MaxSpans == 2
MaxTraces == 2
MaxTime == 2
MaxItems == 2
MaxDatapoints == 2
\* spans created while handlers and a subscriber run concurrently
MaxApiSpans == 1
MaxEvents == 4
\* the capacity of the broadcast channel, scaled down from the 256 of build_router
BusCapacity == 2
MaxOpens == 3
\* calls of RedisEventBus::subscribe
MaxSubscribes == 3
\* requests one server has in flight at a time
MaxInflight == 2
\* times the process is killed while the database file is open
MaxCrashes == 3

SpanIds == 1..MaxSpans
TraceIds == 1..MaxTraces
Times == 0..MaxTime
ItemIds == 1..MaxItems
DatasetIds == {1}
\* the request tasks that run handlers concurrently, and the event subscribers
Reqs == {"a", "b"}
OrgIds == {"o1","o2"}
Subs == {"s1", "s2"}

\* SpanKind values that the model distinguishes: an llm-call kind without and
\* with token counts
Kinds == {"llm_call", "llm_call_tokens"}
\* serde_json::Value payloads of complete_span
Outputs == {"out"}
Errors == {"err"}
Users == {"u1", "u2"}
Edits == {"edit"}

\* Option<T> is the set of at most one T: {} is None, {x} is Some(x)
SomeOf(x) == {x}
NoneOf == {}
OptionOf(S) == {NoneOf} \cup {SomeOf(x) : x \in S}

\* HashMap insert / remove
Put(f, k, v) == [x \in DOMAIN f \cup {k} |-> IF x = k THEN v ELSE f[x]]
Del(f, k) == [x \in DOMAIN f \ {k} |-> f[x]]
EmptyMap == [x \in {} |-> 0]

\* Vec::retain(|&sid| sid != id)
RECURSIVE Retain(_, _)
Retain(seq, id) ==
  IF seq = <<>> THEN <<>>
  ELSE IF Head(seq) = id THEN Retain(Tail(seq), id)
       ELSE <<Head(seq)>> \o Retain(Tail(seq), id)

Range(seq) == {seq[i] : i \in 1..Len(seq)}

VARIABLES
  store,        \* PersistentStore: memory, trace_meta, queue_items and the backend tables
  call,         \* the store method suspended at a backend await (NoCall when none)
  last,         \* the most recent store method that returned: op, key, ret, backend outcome
  now,          \* the wall clock read by Utc::now()
  next_span_id, \* the next fresh span id (Uuid::now_v7)
  next_item_id, \* the next fresh queue item id
  next_datapoint_id, \* the next fresh datapoint id
  dirty,        \* TRUE when a backend write has failed and no write has succeeded since
  lease,        \* the holder of the store's RwLock write guard: a request, or NoHolder
  reqs,         \* per request task: the handler it runs and where it stands in it
  bus,          \* the broadcast channel behind events_tx: tail position and ring buffer
  subs,         \* per subscriber: its receiver's position and what it has received
  sent,         \* every event the channel has accepted, in order
  reads,        \* per subscriber: the response to the read that followed its last event
  orgs,         \* OrgStoreManager: its mode, the cache `stores`, the stores opened and returned
  host          \* what the process holds besides the span store: the RedisEventBus, the
                \* SQLite file and its schema, the AuthStore's api_keys rows, the daemon's
                \* main task and servers

vars == <<store, call, last, now, next_span_id, next_item_id, next_datapoint_id, dirty,
          lease, reqs, bus, subs, sent, reads, orgs, host>>
\* what a direct call of a store method leaves alone
apiVars == <<lease, reqs, bus, subs, sent, reads, orgs, host>>

\* ------------------------------------------------------------ trace crate

\* SpanStatus::is_terminal
is_terminal(status) == status \in {"completed", "failed"}

\* SpanBuilder::build
SpanBuilder_build(id, trace_id, kind) ==
  [id |-> id, trace_id |-> trace_id, org_id |-> NoneOf, parent_id |-> NoneOf,
   kind |-> kind, status |-> "running",
   error |-> NoneOf, ended_at |-> NoneOf, output |-> NoneOf]

\* SpanBuilder::parent, applied to what build returns
SpanBuilder_parent(span, parent_id) == [span EXCEPT !.parent_id = SomeOf(parent_id)]

\* Span::complete
Span_complete(span, output, t) ==
  IF is_terminal(span.status) THEN span
  ELSE [span EXCEPT !.status = "completed", !.ended_at = SomeOf(t), !.output = output]

\* Span::fail
Span_fail(span, error, t) ==
  IF is_terminal(span.status) THEN span
  ELSE [span EXCEPT !.status = "failed", !.error = SomeOf(error), !.ended_at = SomeOf(t)]

\* QueueItem::new
QueueItem_new(id, dataset_id, datapoint_id, t) ==
  [id |-> id, dataset_id |-> dataset_id, datapoint_id |-> datapoint_id, status |-> "pending", claimed_by |-> NoneOf, claimed_at |-> NoneOf,
   edited_data |-> NoneOf, created_at |-> t]

\* QueueItem::claim
QueueItem_claim(item, by, t) ==
  [item EXCEPT !.status = "claimed", !.claimed_by = SomeOf(by), !.claimed_at = SomeOf(t)]

\* QueueItem::complete
QueueItem_complete(item, edited) ==
  [item EXCEPT !.status = "completed", !.edited_data = edited]

\* ------------------------------------------------------- SpanStore (memory)

\* SpanStore::insert
SpanStore_insert(m, span) ==
  [spans |-> Put(m.spans, span.id, span),
   traces |-> Put(m.traces, span.trace_id,
                  Append(IF span.trace_id \in DOMAIN m.traces
                         THEN m.traces[span.trace_id] ELSE <<>>, span.id))]

\* SpanStore::remove
SpanStore_remove(m, id) == [m EXCEPT !.spans = Del(@, id)]

\* SpanStore::replace
SpanStore_replace(m, span) == [m EXCEPT !.spans = Put(@, span.id, span)]

\* SpanStore::spans_for_trace
spans_for_trace(m, trace_id) ==
  IF trace_id \in DOMAIN m.traces THEN m.traces[trace_id] ELSE <<>>

\* mutant: delete_span that forgets the trace index
SpanStore_delete_span_keeps_index(m, id) == [m EXCEPT !.spans = Del(@, id)]

\* SpanStore::delete_span
SpanStore_delete_span(m, id) ==
  IF id \in DOMAIN m.spans
  THEN LET tid == m.spans[id].trace_id
           removed == Del(m.spans, id)
       IN IF tid \in DOMAIN m.traces
          THEN LET span_ids == Retain(m.traces[tid], id)
               IN [spans |-> removed,
                   traces |-> IF span_ids = <<>> THEN Del(m.traces, tid)
                              ELSE Put(m.traces, tid, span_ids)]
          ELSE [spans |-> removed, traces |-> m.traces]
  ELSE m

\* SpanStore::delete_trace
SpanStore_delete_trace(m, trace_id) ==
  IF trace_id \in DOMAIN m.traces
  THEN [spans |-> [x \in DOMAIN m.spans \ Range(m.traces[trace_id]) |-> m.spans[x]],
        traces |-> Del(m.traces, trace_id)]
  ELSE m

\* SpanStore::clear
SpanStore_clear(m) == [spans |-> EmptyMap, traces |-> EmptyMap]

\* ------------------------------------------------- SqliteBackend (tables)

\* SqliteBackend::save_span: the column values of the row that is written
SpanRow(span) ==
  [id |-> span.id, trace_id |-> span.trace_id, parent_id |-> span.parent_id,
   kind_json |-> span.kind, status |-> span.status,
   error |-> IF span.status = "failed" THEN span.error ELSE NoneOf,
   ended_at |-> span.ended_at, output_json |-> span.output]

\* SqliteBackend::deserialize_span: the span rebuilt from a row
deserialize_span(row) ==
  [id |-> row.id, trace_id |-> row.trace_id, org_id |-> NoneOf,
   parent_id |-> row.parent_id, kind |-> row.kind_json, status |-> row.status,
   error |-> IF row.status = "failed"
             THEN (IF row.error = NoneOf THEN SomeOf("") ELSE row.error)
             ELSE NoneOf,
   ended_at |-> row.ended_at, output |-> row.output_json]

\* INSERT OR REPLACE INTO spans
backend_save_span(S, span) == [S EXCEPT !.b_spans = Put(@, span.id, SpanRow(span))]

\* DELETE FROM spans WHERE id = ?1
backend_delete_span(S, id) == [S EXCEPT !.b_spans = Del(@, id)]

\* DELETE FROM spans WHERE trace_id = ?1
backend_delete_trace_spans(S, trace_id) ==
  [S EXCEPT !.b_spans = [x \in {y \in DOMAIN @ : @[y].trace_id # trace_id} |-> @[x]]]

\* DELETE FROM spans
backend_clear_spans(S) == [S EXCEPT !.b_spans = EmptyMap]

\* INSERT OR REPLACE INTO traces
backend_save_trace(S, trace) == [S EXCEPT !.b_traces = Put(@, trace.id, trace)]

\* DELETE FROM traces WHERE id = ?1; DELETE FROM spans WHERE trace_id = ?1
backend_delete_trace(S, trace_id) ==
  backend_delete_trace_spans([S EXCEPT !.b_traces = Del(@, trace_id)], trace_id)

\* INSERT OR REPLACE INTO datapoints
backend_save_datapoint(S, dp) == [S EXCEPT !.b_datapoints = Put(@, dp.id, dp)]

\* INSERT OR REPLACE INTO queue_items
backend_save_queue_item(S, item) == [S EXCEPT !.b_queue_items = Put(@, item.id, item)]

\* TurbopufferBackend::save_dataset: upsert of the row with id = dataset.id
turbopuffer_save_dataset(S, dataset) ==
  [S EXCEPT !.b_datasets = Put(@, dataset.id, dataset)]

\* SqliteBackend::delete_dataset: DELETE FROM datasets WHERE id = ?1 on a
\* connection with foreign_keys=ON; datapoints.dataset_id, queue_items.dataset_id
\* and queue_items.datapoint_id are declared ON DELETE CASCADE
sqlite_delete_dataset(S, id) ==
  LET dps == {d \in DOMAIN S.b_datapoints : S.b_datapoints[d].dataset_id = id}
  IN [S EXCEPT !.b_datasets = Del(@, id),
               !.b_datapoints = [d \in DOMAIN @ \ dps |-> @[d]],
               !.b_queue_items = [q \in {x \in DOMAIN @ : /\ @[x].dataset_id # id
                                                        /\ @[x].datapoint_id \notin dps}
                                   |-> @[q]]]

\* TurbopufferBackend::delete_dataset: delete_dataset_datapoints, then the
\* dataset row; the queue_items namespace is not touched
turbopuffer_delete_dataset(S, id) ==
  LET dps == {d \in DOMAIN S.b_datapoints : S.b_datapoints[d].dataset_id = id}
  IN [S EXCEPT !.b_datasets = Del(@, id),
               !.b_datapoints = [d \in DOMAIN @ \ dps |-> @[d]]]

\* SqliteBackend::save_dataset: INSERT OR REPLACE INTO datasets on a connection
\* with foreign_keys=ON. REPLACE resolves the conflict on the primary key by
\* deleting the existing row before it inserts the new one, and the delete
\* runs the ON DELETE CASCADE actions of the rows that reference it
sqlite_save_dataset(S, dataset) ==
  IF dataset.id \in DOMAIN S.b_datasets
  THEN [sqlite_delete_dataset(S, dataset.id) EXCEPT
          !.b_datasets = Put(@, dataset.id, dataset)]
  ELSE [S EXCEPT !.b_datasets = Put(@, dataset.id, dataset)]

\* AnyBackend::save_dataset delegates to the backend the store was opened on
backend_save_dataset(S, dataset) ==
  IF S.backend_type = "sqlite" THEN sqlite_save_dataset(S, dataset)
  ELSE turbopuffer_save_dataset(S, dataset)

\* AnyBackend::delete_dataset delegates to the backend the store was opened on
backend_delete_dataset(S, id) ==
  IF S.backend_type = "sqlite" THEN sqlite_delete_dataset(S, id)
  ELSE turbopuffer_delete_dataset(S, id)

\* SqliteBackend::save_file_content: INSERT OR IGNORE INTO file_contents
sqlite_save_file_content(S, hash, content) ==
  IF hash \in DOMAIN S.b_file_contents THEN S
  ELSE [S EXCEPT !.b_file_contents = Put(@, hash, [content |-> content])]

\* base64 STANDARD.encode and decode
base64_encode(content) == [base64 |-> content]
base64_decode(encoded) == encoded.base64

\* TurbopufferBackend::save_file_content: upsert of the row with id = hash
turbopuffer_save_file_content(S, hash, content) ==
  [S EXCEPT !.b_file_contents = Put(@, hash, [content_base64 |-> base64_encode(content)])]

backend_save_file_content(S, arg) ==
  IF S.backend_type = "sqlite" THEN sqlite_save_file_content(S, arg.hash, arg.content)
  ELSE turbopuffer_save_file_content(S, arg.hash, arg.content)

\* PersistentStore::load_file_content, through either backend: Ok(content) or
\* Err(NotFound)
load_file_content(S, hash) ==
  IF hash \notin DOMAIN S.b_file_contents THEN NoneOf
  ELSE IF S.backend_type = "sqlite" THEN SomeOf(S.b_file_contents[hash].content)
  ELSE SomeOf(base64_decode(S.b_file_contents[hash].content_base64))

\* The backend call a suspended store method is waiting for, applied
BackendApply(S, c) ==
  CASE c.await = "save_span" -> backend_save_span(S, c.arg)
    [] c.await = "delete_span" -> backend_delete_span(S, c.arg)
    [] c.await = "delete_trace_spans" -> backend_delete_trace_spans(S, c.arg)
    [] c.await = "delete_trace" -> backend_delete_trace(S, c.arg)
    [] c.await = "clear_spans" -> backend_clear_spans(S)
    [] c.await = "save_trace" -> backend_save_trace(S, c.arg)
    [] c.await = "save_datapoint" -> backend_save_datapoint(S, c.arg)
    [] c.await = "save_queue_item" -> backend_save_queue_item(S, c.arg)
    [] c.await = "save_dataset" -> backend_save_dataset(S, c.arg)
    [] c.await = "delete_dataset" -> backend_delete_dataset(S, c.arg)
    [] c.await = "save_file_content" -> backend_save_file_content(S, c.arg)

\* ------------------------------------------------------- PersistentStore

NoCall == [op |-> "none"]
RetNone == [tag |-> "none"]
RetUnit == [tag |-> "unit"]
RetSpan(span) == [tag |-> "span", span |-> span]
RetId(id) == [tag |-> "id", id |-> id]
RetBool(b) == [tag |-> "bool", b |-> b]
RetCount(n) == [tag |-> "count", n |-> n]
RetItem(item) == [tag |-> "item", item |-> item]

\* a method that returns without reaching a backend await
Returned(S, ret) == [store |-> S, call |-> NoCall, ret |-> ret]
\* a method suspended at `self.backend.<await>(arg).await`
Suspended(S, op, await, arg, ret) ==
  [store |-> S, call |-> [op |-> op, await |-> await, arg |-> arg, ret |-> ret], ret |-> ret]

\* PersistentStore::insert, up to the await of save_span
insert_pre(S, span) ==
  LET m == SpanStore_insert(S.memory, span)
  IN Suspended([S EXCEPT !.memory = m], "insert", "save_span", m.spans[span.id], RetId(span.id))

\* mutant: complete_span that returns the completed span but leaves the running
\* one in memory
complete_span_unstored(S, id, output, t) ==
  IF id \notin DOMAIN S.memory.spans THEN Returned(S, RetNone)
  ELSE LET span == S.memory.spans[id]
       IN IF is_terminal(span.status) THEN Returned(S, RetNone)
          ELSE Suspended(S, "complete_span", "save_span", span,
                         RetSpan(Span_complete(span, output, t)))

\* PersistentStore::complete_span, up to the await of save_span
complete_span_pre(S, id, output, t) ==
  IF id \notin DOMAIN S.memory.spans THEN Returned(S, RetNone)
  ELSE LET span == S.memory.spans[id]
           removed == SpanStore_remove(S.memory, id)
       IN IF is_terminal(span.status)
          THEN Returned([S EXCEPT !.memory = SpanStore_replace(removed, span)], RetNone)
          ELSE LET completed == Span_complete(span, output, t)
               IN Suspended([S EXCEPT !.memory = SpanStore_replace(removed, completed)],
                            "complete_span", "save_span", completed, RetSpan(completed))

\* mutant: the patch without the ended_at entry
PatchKind_no_ended_at(span, kind, output, t) ==
  [span EXCEPT !.kind = kind, !.status = "completed",
               !.output = IF output # NoneOf THEN output ELSE @]

\* the serde_json patch of complete_span_with_kind: kind, status, ended_at and,
\* when an output is given, output are overwritten in the span's JSON object
PatchKind(span, kind, output, t) ==
  [span EXCEPT !.kind = kind, !.status = "completed", !.ended_at = SomeOf(t),
               !.output = IF output # NoneOf THEN output ELSE @]

\* mutant: complete_span_with_kind without the is_terminal check
complete_span_with_kind_unchecked(S, id, kind, output, t) ==
  IF id \notin DOMAIN S.memory.spans THEN Returned(S, RetNone)
  ELSE LET completed == PatchKind(S.memory.spans[id], kind, output, t)
       IN Suspended([S EXCEPT !.memory = SpanStore_replace(SpanStore_remove(@, id), completed)],
                    "complete_span_with_kind", "save_span", completed, RetSpan(completed))

\* PersistentStore::complete_span_with_kind, up to the await of save_span
complete_span_with_kind_pre(S, id, kind, output, t) ==
  IF id \notin DOMAIN S.memory.spans THEN Returned(S, RetNone)
  ELSE LET span == S.memory.spans[id]
           removed == SpanStore_remove(S.memory, id)
       IN IF is_terminal(span.status)
          THEN Returned([S EXCEPT !.memory = SpanStore_replace(removed, span)], RetNone)
          ELSE LET completed == PatchKind(span, kind, output, t)
               IN Suspended([S EXCEPT !.memory = SpanStore_replace(removed, completed)],
                            "complete_span_with_kind", "save_span", completed,
                            RetSpan(completed))

\* PersistentStore::fail_span, up to the await of save_span
fail_span_pre(S, id, error, t) ==
  IF id \notin DOMAIN S.memory.spans THEN Returned(S, RetNone)
  ELSE LET span == S.memory.spans[id]
           removed == SpanStore_remove(S.memory, id)
       IN IF is_terminal(span.status)
          THEN Returned([S EXCEPT !.memory = SpanStore_replace(removed, span)], RetNone)
          ELSE LET failed == Span_fail(span, error, t)
               IN Suspended([S EXCEPT !.memory = SpanStore_replace(removed, failed)],
                            "fail_span", "save_span", failed, RetSpan(failed))

\* PersistentStore::delete_span, up to the await of backend.delete_span
delete_span_pre(S, id) ==
  IF id \in DOMAIN S.memory.spans
  THEN Suspended([S EXCEPT !.memory = SpanStore_delete_span(@, id)],
                 "delete_span", "delete_span", id, RetBool(TRUE))
  ELSE Returned(S, RetBool(FALSE))

\* mutant: the trace metadata stays in memory
delete_trace_keeps_meta(S, trace_id) ==
  LET count == Len(spans_for_trace(S.memory, trace_id))
      S1 == [S EXCEPT !.memory = SpanStore_delete_trace(@, trace_id)]
  IN IF count > 0
     THEN Suspended(S1, "delete_trace", "delete_trace_spans", trace_id, RetCount(count))
     ELSE Suspended(S1, "delete_trace", "delete_trace", trace_id, RetCount(count))

\* PersistentStore::delete_trace, up to its first await
delete_trace_pre(S, trace_id) ==
  LET count == Len(spans_for_trace(S.memory, trace_id))
      S1 == [S EXCEPT !.memory = SpanStore_delete_trace(@, trace_id),
                      !.trace_meta = Del(@, trace_id)]
  IN IF count > 0
     THEN Suspended(S1, "delete_trace", "delete_trace_spans", trace_id, RetCount(count))
     ELSE Suspended(S1, "delete_trace", "delete_trace", trace_id, RetCount(count))

\* PersistentStore::clear, up to the await of clear_spans
clear_pre(S) ==
  Suspended([S EXCEPT !.memory = SpanStore_clear(@), !.trace_meta = EmptyMap,
                      !.datasets = EmptyMap, !.datapoints = EmptyMap,
                      !.queue_items = EmptyMap],
            "clear", "clear_spans", 0, RetUnit)

\* PersistentStore::save_trace, up to the await of backend.save_trace
save_trace_pre(S, trace) == Suspended(S, "save_trace", "save_trace", trace, RetUnit)

\* PersistentStore::save_dataset, up to the await of backend.save_dataset
save_dataset_pre(S, dataset) == Suspended(S, "save_dataset", "save_dataset", dataset, RetUnit)

\* PersistentStore::delete_dataset, up to the await of backend.delete_dataset:
\* the dataset, its datapoints and its queue items leave memory
delete_dataset_pre(S, id) ==
  IF id \notin DOMAIN S.datasets THEN Returned(S, RetBool(FALSE))
  ELSE Suspended([S EXCEPT
                    !.datasets = Del(@, id),
                    !.datapoints = [d \in {x \in DOMAIN @ : @[x].dataset_id # id} |-> @[d]],
                    !.queue_items = [q \in {x \in DOMAIN @ : @[x].dataset_id # id} |-> @[q]]],
                 "delete_dataset", "delete_dataset", id, RetBool(TRUE))

\* PersistentStore::save_datapoint, up to the await of backend.save_datapoint
save_datapoint_pre(S, dp) == Suspended(S, "save_datapoint", "save_datapoint", dp, RetUnit)

\* PersistentStore::save_queue_item, up to the await of backend.save_queue_item
save_queue_item_pre(S, item) ==
  Suspended(S, "save_queue_item", "save_queue_item", item, RetUnit)

\* mutant: claim_queue_item without the status check
claim_queue_item_unchecked(S, id, claimed_by, t) ==
  IF id \notin DOMAIN S.queue_items THEN Returned(S, RetNone)
  ELSE LET claimed == QueueItem_claim(S.queue_items[id], claimed_by, t)
       IN Suspended([S EXCEPT !.queue_items = Del(@, id)], "claim_queue_item",
                    "save_queue_item", claimed, RetItem(claimed))

\* PersistentStore::claim_queue_item, up to the await of backend.save_queue_item
claim_queue_item_pre(S, id, claimed_by, t) ==
  IF id \notin DOMAIN S.queue_items THEN Returned(S, RetNone)
  ELSE LET item == S.queue_items[id]
           removed == [S EXCEPT !.queue_items = Del(@, id)]
       IN IF item.status # "pending"
          THEN Returned([removed EXCEPT !.queue_items = Put(@, id, item)], RetNone)
          ELSE LET claimed == QueueItem_claim(item, claimed_by, t)
               IN Suspended(removed, "claim_queue_item", "save_queue_item", claimed,
                            RetItem(claimed))

\* PersistentStore::complete_queue_item, up to the await of backend.save_queue_item
complete_queue_item_pre(S, id, edited_data) ==
  IF id \notin DOMAIN S.queue_items THEN Returned(S, RetNone)
  ELSE LET item == S.queue_items[id]
           removed == [S EXCEPT !.queue_items = Del(@, id)]
       IN IF item.status # "claimed"
          THEN Returned([removed EXCEPT !.queue_items = Put(@, id, item)], RetNone)
          ELSE LET completed == QueueItem_complete(item, edited_data)
               IN Suspended(removed, "complete_queue_item", "save_queue_item", completed,
                            RetItem(completed))

\* mutant: a failed save_span takes the span out of memory again
AfterBackend_rollback(S, c, ok) ==
  IF ok THEN BackendApply(S, c)
  ELSE IF c.await = "save_span"
       THEN [S EXCEPT !.memory = SpanStore_delete_span(@, c.arg.id)]
       ELSE S

\* what a suspended method does with the backend's answer: `if let Err(e) = ...`
\* logs the error and goes on with the store as it is
AfterBackend(S, c, ok) == IF ok THEN BackendApply(S, c) ELSE S

\* the statements of a method that follow its backend await
AfterAwait(S, c) ==
  CASE c.op = "save_trace" -> [S EXCEPT !.trace_meta = Put(@, c.arg.id, c.arg)]
    [] c.op = "save_dataset" -> [S EXCEPT !.datasets = Put(@, c.arg.id, c.arg)]
    [] c.op = "save_datapoint" -> [S EXCEPT !.datapoints = Put(@, c.arg.id, c.arg)]
    [] c.op \in {"save_queue_item", "claim_queue_item", "complete_queue_item"} ->
         [S EXCEPT !.queue_items = Put(@, c.arg.id, c.arg)]
    [] OTHER -> S

\* the next await of a suspended method, if it has one: delete_trace awaits
\* backend.delete_trace after backend.delete_trace_spans
NextAwait(c) ==
  IF c.op = "delete_trace" /\ c.await = "delete_trace_spans"
  THEN [c EXCEPT !.await = "delete_trace"]
  ELSE NoCall

\* a suspended method resumed with the backend's answer
Resume(S, c, ok) ==
  LET n == NextAwait(c)
  IN [store |-> AfterAwait(AfterBackend(S, c, ok), c), call |-> n, ret |-> c.ret]

\* SqliteBackend::load_all_spans: the rows of the spans table, deserialized
RECURSIVE load_all_spans(_, _)
load_all_spans(rows, ids) ==
  IF ids = {} THEN <<>>
  ELSE LET id == CHOOSE x \in ids : \A y \in ids : x <= y
       IN <<deserialize_span(rows[id])>> \o load_all_spans(rows, ids \ {id})

\* the loop `for span in spans { memory.insert(span) }` of PersistentStore::open
RECURSIVE InsertAll(_, _)
InsertAll(m, spans) ==
  IF spans = <<>> THEN m ELSE InsertAll(SpanStore_insert(m, Head(spans)), Tail(spans))

\* PersistentStore::open on the backend tables of S: the store a restart builds
PersistentStore_open(S) ==
  [S EXCEPT !.memory = InsertAll(SpanStore_clear(S.memory),
                                 load_all_spans(S.b_spans, DOMAIN S.b_spans)),
            !.trace_meta = S.b_traces,
            !.datasets = S.b_datasets,
            !.datapoints = S.b_datapoints,
            !.queue_items = S.b_queue_items]

\* the collections PersistentStore::open loads, in the order it loads them
LoadOrder == <<"spans", "traces", "files", "datasets", "datapoints", "queue_items">>

\* PersistentStore::open on a backend whose load_all_* of the collections in
\* `failing` answer Err: every load is followed by `?`, so the first load that
\* fails ends open with its error
PersistentStore_open_result(S, failing) ==
  IF \E i \in 1..Len(LoadOrder) : LoadOrder[i] \in failing
  THEN [tag |-> "open", ok |-> FALSE, failing |-> failing,
        error |-> LoadOrder[CHOOSE i \in 1..Len(LoadOrder) :
                              /\ LoadOrder[i] \in failing
                              /\ \A k \in 1..(i - 1) : LoadOrder[k] \notin failing]]
  ELSE [tag |-> "open", ok |-> TRUE, failing |-> failing, store |-> PersistentStore_open(S)]

\* ------------------------------------------------- the broadcast channel

\* broadcast::channel(capacity): nothing sent, nothing retained
EmptyBus == [tail |-> 0, buf |-> <<>>]

\* a subscriber that has not subscribed; one that has: `next` is the position of
\* the next event it will read, `got` what its last recv returned
NoSub == [active |-> FALSE]
NoEvent == [type |-> "none"]
\* RecvError::Lagged(n): n values were skipped
Lagged(n) == [type |-> "lagged", n |-> n]

\* Sender::subscribe: the new receiver starts at the tail
broadcast_subscribe(b) ==
  [active |-> TRUE, next |-> b.tail, got |-> NoEvent, missed |-> 0]

\* Sender::receiver_count
receiver_count(S) == Cardinality({s \in DOMAIN S : S[s].active})

\* mutant: a bounded queue that takes a value only when no receiver would lose one
CanSend_bounded(b, S) ==
  \A s \in DOMAIN S : S[s].active => b.tail - S[s].next < BusCapacity

\* Sender::send returns at once, whatever position the receivers are at
CanSend(b, S) == TRUE

\* Sender::send: with no receiver the value is handed back and dropped; otherwise
\* it is written over the oldest slot of the ring
broadcast_send(b, e, S) ==
  IF receiver_count(S) = 0 THEN b
  ELSE [tail |-> b.tail + 1,
        buf |-> IF Len(b.buf) < BusCapacity THEN Append(b.buf, e)
                ELSE Append(Tail(b.buf), e)]

\* the position of the oldest value the ring still holds
Oldest(b) == b.tail - Len(b.buf)

\* Receiver::recv for a receiver with something to read: a receiver whose next
\* value has been overwritten gets Lagged and moves to the oldest retained value
broadcast_recv(b, sub) ==
  IF sub.next < Oldest(b)
  THEN [sub EXCEPT !.next = Oldest(b), !.got = Lagged(Oldest(b) - sub.next),
                   !.missed = @ + Oldest(b) - sub.next]
  ELSE [sub EXCEPT !.next = @ + 1, !.got = b.buf[sub.next - Oldest(b) + 1]]

\* mutant: a stream that ends at the first Lagged
BroadcastStream_next_fused(b, sub) ==
  IF sub.next < Oldest(b) THEN [broadcast_recv(b, sub) EXCEPT !.active = FALSE]
  ELSE broadcast_recv(b, sub)

\* BroadcastStream::poll_next: the result of recv is the item, Ok or Err(Lagged),
\* and the stream goes on polling the same receiver after either
BroadcastStream_next(b, sub) == broadcast_recv(b, sub)

\* serde_json::to_string of a SystemEvent: the tagged object as text
serde_json_to_string(e) == SomeOf([json |-> e])

\* the closure of filter_map in the events handler: an Ok item becomes one SSE
\* frame carrying the JSON, an Err item yields nothing
events_filter_map(result) ==
  IF result.type = "lagged" THEN NoneOf
  ELSE {[data |-> j.json] : j \in serde_json_to_string(result)}

\* EventSubscriber::recv: `.ok()` of the result of recv
EventSubscriber_recv(result) ==
  IF result.type = "lagged" THEN NoneOf ELSE SomeOf(result)

\* ---- RedisEventBus

\* RedisEventBus::new has returned: the listener task is spawned and about to
\* connect, nothing is published, nobody has subscribed
RedisEventBus_new ==
  [listener |-> "connecting", \* where the task of start_listener stands
   wake |-> 0,                \* when its sleep ends
   channel |-> <<>>,          \* the messages Redis has for the listener's connection
   publishing |-> NoneOf,     \* the event of the publish that awaits Redis
   subscriber_count |-> 0,    \* the AtomicUsize
   returned |-> 0,            \* the calls of publish that have returned
   local_sends |-> 0]         \* the calls of local_tx.send

\* the delay of the listener before it connects again, in seconds
ReconnectDelay == 1

\* Redis PUBLISH: the message goes to the connections subscribed to the channel
\* at that moment; with none it is dropped
redis_publish(redis, payload) ==
  IF redis.listener = "subscribed" THEN Append(redis.channel, payload) ELSE redis.channel

\* serde_json::from_str::<SystemEvent> of a payload serde_json::to_string made
serde_json_from_str(payload) == SomeOf(payload.json)

\* ---- SQLite schema migrations

\* MIGRATIONS: per version the statements of its batch, each with the object
\* it makes. CREATE TABLE / INDEX IF NOT EXISTS does nothing when the object
\* exists; ALTER TABLE .. ADD COLUMN fails when the column exists
MIGRATIONS ==
  <<  \* v1: core schema
     <<[kind |-> "create_if_not_exists", object |-> "spans"],
       [kind |-> "create_if_not_exists", object |-> "traces"],
       [kind |-> "create_if_not_exists", object |-> "file_contents"]>>,
      \* v2: datasets, datapoints, queue_items
     <<[kind |-> "create_if_not_exists", object |-> "datasets"],
       [kind |-> "create_if_not_exists", object |-> "datapoints"],
       [kind |-> "create_if_not_exists", object |-> "queue_items"]>>,
      \* v3: org_id columns and auth tables
     <<[kind |-> "alter_add_column", object |-> "spans.org_id"],
       [kind |-> "alter_add_column", object |-> "datasets.org_id"],
       [kind |-> "create_if_not_exists", object |-> "organizations"]>> >>

\* a database file that does not exist yet, and no process that has it open
SqliteFile_new ==
  [schema |-> {},       \* the tables and columns of the file
   migrations |-> {},   \* the versions in the migrations table
   at |-> "closed",     \* closed, migrating, open, or failed (open returned Err)
   version |-> 0,       \* the version run_migrations is applying
   stmt |-> 0,          \* the statement of its batch that runs next
   crashes |-> 0]

\* SELECT COALESCE(MAX(version), 0) FROM migrations
current_version(db) ==
  IF db.migrations = {} THEN 0
  ELSE CHOOSE v \in db.migrations : \A w \in db.migrations : w <= v

\* the loop of run_migrations moves on to the next version above
\* current_version, or ends
run_migrations_from(db, version) ==
  IF version > Len(MIGRATIONS) THEN [db EXCEPT !.at = "open", !.version = 0, !.stmt = 0]
  ELSE [db EXCEPT !.at = "migrating", !.version = version, !.stmt = 1]

\* one statement of execute_batch, run in autocommit mode
execute_statement(db, st) ==
  IF st.kind = "alter_add_column" /\ st.object \in db.schema
  THEN [db EXCEPT !.at = "failed", !.version = 0, !.stmt = 0]
  ELSE [db EXCEPT !.schema = @ \cup {st.object}, !.stmt = @ + 1]

\* ---- daemon shutdown

\* SHUTDOWN_TIMEOUT, in seconds
SHUTDOWN_TIMEOUT == 10

\* MAX_COMPONENT_RESTARTS
MAX_COMPONENT_RESTARTS == 3

\* the supervised servers main spawns
Components == {"api", "proxy"}

\* main has spawned run_api_supervised and run_proxy_supervised and waits for
\* SIGINT or SIGTERM
Daemon_new ==
  [phase |-> "running",   \* running (main waits in select!), stopping, exited
   shutdown |-> FALSE,    \* the value of the watch channel
   elapsed |-> 0,         \* seconds since main's shutdown_tx.send(true)
   \* serving, draining, backoff (the supervisor sleeps), stopped (it has returned)
   server |-> [c \in Components |-> "serving"],
   restarts |-> [c \in Components |-> 0],
   backoff |-> [c \in Components |-> 1],        \* seconds the next sleep will take
   sleep |-> [c \in Components |-> 0],          \* seconds left of the current sleep
   inflight |-> [c \in Components |-> 0],        \* handlers that have not returned
   timed_out |-> FALSE,   \* shutdown_result was Err(Elapsed)
   released |-> FALSE]    \* main has returned: its Arc of the store and the
                          \* runtime with every task are dropped

\* mutant: main joins the component handles without a timeout
shutdown_wait_done_join(d) == \A c \in Components : d.server[c] = "stopped"

\* tokio::time::timeout(SHUTDOWN_TIMEOUT, join!(api_handle, proxy_handle)) has
\* returned: both tasks have ended, or the time is up
shutdown_wait_done(d) ==
  \/ \A c \in Components : d.server[c] = "stopped"
  \/ d.elapsed >= SHUTDOWN_TIMEOUT

\* ------------------------------------------------------- OrgStoreManager

\* the PersistentStore the daemon opens at start is instance 0; the stores the
\* manager opens are numbered from 1
\* OrgStoreManager::single(store)
OrgStoreManager_single ==
  [mode |-> "single", stores |-> [o \in OrgIds |-> NoneOf], opened |-> 0,
   created |-> [o \in OrgIds |-> {}], handed |-> [o \in OrgIds |-> {}]]

\* OrgStoreManager::per_org(base_config)
OrgStoreManager_per_org == [OrgStoreManager_single EXCEPT !.mode = "per_org"]

\* ------------------------------------------------------------ api handlers

NoHolder == "none"
IdleReq == [h |-> "idle"]

\* SystemEvent variants
SpanCreated(span) == [type |-> "span_created", span |-> span]
SpanCompleted(span) == [type |-> "span_completed", span |-> span]
SpanDeleted(span_id) == [type |-> "span_deleted", span_id |-> span_id]
SpanFailed(span) == [type |-> "span_failed", span |-> span]
DatapointCreated(dp) == [type |-> "datapoint_created", datapoint |-> dp]
QueueItemUpdated(item) == [type |-> "queue_item_updated", item |-> item]

\* Datapoint::new
Datapoint_new(id, dataset_id) == [id |-> id, dataset_id |-> dataset_id]

\* the response of the get_span handler
NoResponse == [status |-> 0]
get_span(S, span_id) ==
  IF span_id \in DOMAIN S.memory.spans
  THEN [status |-> 200, span |-> S.memory.spans[span_id]]
  ELSE [status |-> 404]

\* get_trace handler: 404 only when the trace has neither spans nor metadata
get_trace(S, trace_id) ==
  LET span_ids == spans_for_trace(S.memory, trace_id)
  IN IF Len(span_ids) = 0 /\ trace_id \notin DOMAIN S.trace_meta
     THEN [status |-> 404]
     ELSE [status |-> 200,
           spans |-> {S.memory.spans[id] : id \in Range(span_ids) \cap DOMAIN S.memory.spans}]

\* list_traces handler: `r.all_traces()`, the values of trace_meta
list_traces(S) == {S.trace_meta[t] : t \in DOMAIN S.trace_meta}

TraceDeleted(trace_id) == [type |-> "trace_deleted", trace_id |-> trace_id]

\* handlers that publish inside their loop and handlers that publish once
LoopHandlers == {"enqueue_datapoints", "import_file"}

\* ------------------------------------------ the store driven by its callers

EmptyStore ==
  [memory |-> [spans |-> EmptyMap, traces |-> EmptyMap],
   trace_meta |-> EmptyMap, datasets |-> EmptyMap, datapoints |-> EmptyMap,
   queue_items |-> EmptyMap,
   b_spans |-> EmptyMap, b_traces |-> EmptyMap, b_datasets |-> EmptyMap,
   b_datapoints |-> EmptyMap, b_queue_items |-> EmptyMap,
   b_file_contents |-> EmptyMap,
   backend_type |-> "sqlite"]

NoKey == <<"none", 0>>
NoLast ==
  [op |-> "none", key |-> NoKey, ret |-> RetNone, backend |-> "none",
   after_failure |-> FALSE]

\* a process whose AuthStore holds no API key
Host_new ==
  [redis |-> RedisEventBus_new,
   daemon |-> Daemon_new,
   db |-> SqliteFile_new,
   api_keys |-> <<>>,  \* the rows of the api_keys table, by key id
   spawned |-> {},     \* the key ids of the spawned update_api_key_last_used tasks
   verified |-> {},    \* the key ids a request has passed verify_api_key with
   owner |-> <<>>,     \* per span id: the org of the request that created the span
   response |-> [h |-> "none"]]  \* the last response to a request made for an org

\* PersistentStore::open on an empty backend
Init ==
  /\ store = EmptyStore
  /\ call = NoCall
  /\ last = NoLast
  /\ now = 0
  /\ next_span_id = 1
  /\ next_item_id = 1
  /\ next_datapoint_id = 1
  /\ dirty = FALSE
  /\ lease = NoHolder
  /\ reqs = [r \in Reqs |-> IdleReq]
  /\ bus = EmptyBus
  /\ subs = [s \in Subs |-> NoSub]
  /\ sent = <<>>
  /\ reads = [s \in Subs |-> NoResponse]
  /\ orgs = OrgStoreManager_single
  /\ host = Host_new

\* a caller enters a store method; it runs to its first backend await or returns
StoreBegin(r, op, key) ==
  /\ call.op = "none"
  /\ store' = r.store
  /\ call' = r.call
  /\ last' = [NoLast EXCEPT !.op = op, !.key = key, !.ret = r.ret]
  /\ UNCHANGED dirty

\* the backend answers the suspended method with Ok (ok) or Err (~ok)
BackendReply(ok) ==
  /\ call.op # "none"
  /\ LET r == Resume(store, call, ok)
         bad == ~ok \/ last.backend = "failed"
     IN /\ store' = r.store
        /\ call' = r.call
        /\ last' = IF r.call.op = "none"
                   THEN [last EXCEPT !.ret = r.ret,
                                     !.backend = IF bad THEN "failed" ELSE "ok",
                                     !.after_failure = ok /\ dirty]
                   ELSE [last EXCEPT !.backend = IF bad THEN "failed" ELSE "none"]
        /\ dirty' = ~ok
  /\ UNCHANGED <<now, next_span_id, next_item_id, next_datapoint_id, apiVars>>

\* time passes
Tick ==
  /\ now < MaxTime
  /\ now' = now + 1
  /\ UNCHANGED <<store, call, last, next_span_id, next_item_id, next_datapoint_id, dirty,
                 apiVars>>

Insert(trace_id, kind) ==
  /\ next_span_id <= MaxSpans
  /\ StoreBegin(insert_pre(store, SpanBuilder_build(next_span_id, trace_id, kind)),
                "insert", <<"span", next_span_id>>)
  /\ next_span_id' = next_span_id + 1
  /\ UNCHANGED <<now, next_item_id, next_datapoint_id, apiVars>>

CompleteSpan(id, output) ==
  /\ StoreBegin(complete_span_pre(store, id, output, now), "complete_span", <<"span", id>>)
  /\ UNCHANGED <<now, next_span_id, next_item_id, next_datapoint_id, apiVars>>

CompleteSpanWithKind(id, kind, output) ==
  /\ StoreBegin(complete_span_with_kind_pre(store, id, kind, output, now),
                "complete_span_with_kind", <<"span", id>>)
  /\ UNCHANGED <<now, next_span_id, next_item_id, next_datapoint_id, apiVars>>

FailSpan(id, error) ==
  /\ StoreBegin(fail_span_pre(store, id, error, now), "fail_span", <<"span", id>>)
  /\ UNCHANGED <<now, next_span_id, next_item_id, next_datapoint_id, apiVars>>

DeleteSpan(id) ==
  /\ StoreBegin(delete_span_pre(store, id), "delete_span", <<"span", id>>)
  /\ UNCHANGED <<now, next_span_id, next_item_id, next_datapoint_id, apiVars>>

DeleteTrace(trace_id) ==
  /\ StoreBegin(delete_trace_pre(store, trace_id), "delete_trace", <<"trace", trace_id>>)
  /\ UNCHANGED <<now, next_span_id, next_item_id, next_datapoint_id, apiVars>>

Clear ==
  /\ StoreBegin(clear_pre(store), "clear", NoKey)
  /\ UNCHANGED <<now, next_span_id, next_item_id, next_datapoint_id, apiVars>>

\* the process is started again: PersistentStore::open on the backend the last
\* process left, with some of its loads failing; on Ok the new store replaces
\* the old one, on Err the daemon does not start
Reopen(failing) ==
  /\ call.op = "none"
  /\ LET r == PersistentStore_open_result(store, failing)
     IN /\ store' = IF r.ok THEN r.store ELSE store
        /\ last' = [NoLast EXCEPT !.op = "open",
                                  !.ret = [tag |-> "open", ok |-> r.ok, failing |-> failing]]
  /\ UNCHANGED <<call, now, next_span_id, next_item_id, next_datapoint_id, dirty, apiVars>>

SaveTrace(trace_id) ==
  /\ StoreBegin(save_trace_pre(store, [id |-> trace_id]), "save_trace", <<"trace", trace_id>>)
  /\ UNCHANGED <<now, next_span_id, next_item_id, next_datapoint_id, apiVars>>

\* enqueue: QueueItem::new followed by PersistentStore::save_queue_item
SaveQueueItem ==
  /\ next_item_id <= MaxItems
  /\ StoreBegin(save_queue_item_pre(store, QueueItem_new(next_item_id, 1, 1, now)),
                "save_queue_item", <<"item", next_item_id>>)
  /\ next_item_id' = next_item_id + 1
  /\ UNCHANGED <<now, next_span_id, next_datapoint_id, apiVars>>

\* PersistentStore::save_file_content
save_file_content_pre(S, hash, content) ==
  Suspended(S, "save_file_content", "save_file_content",
            [hash |-> hash, content |-> content], RetUnit)

SaveFileContent(hash, content) ==
  /\ StoreBegin(save_file_content_pre(store, hash, content), "save_file_content",
                <<hash, 0>>)
  /\ UNCHANGED <<now, next_span_id, next_item_id, next_datapoint_id, apiVars>>

\* create_dataset: Dataset::new followed by PersistentStore::save_dataset
SaveDataset(id) ==
  /\ id \notin DOMAIN store.datasets
  /\ StoreBegin(save_dataset_pre(store, [id |-> id]), "save_dataset", <<"dataset", id>>)
  /\ UNCHANGED <<now, next_span_id, next_item_id, next_datapoint_id, apiVars>>

\* the update_dataset handler under the write guard: the stored dataset with a
\* new updated_at is saved under its id
UpdateDataset(id) ==
  /\ id \in DOMAIN store.datasets
  /\ StoreBegin(save_dataset_pre(store, [id |-> id, updated_at |-> now]),
                "save_dataset", <<"dataset", id>>)
  /\ UNCHANGED <<now, next_span_id, next_item_id, next_datapoint_id, apiVars>>

\* create_datapoint on an existing dataset: Datapoint::new followed by
\* PersistentStore::save_datapoint
SaveDatapoint(dataset_id) ==
  /\ dataset_id \in DOMAIN store.datasets
  /\ next_datapoint_id <= MaxDatapoints
  /\ StoreBegin(save_datapoint_pre(store, Datapoint_new(next_datapoint_id, dataset_id)),
                "save_datapoint", <<"datapoint", next_datapoint_id>>)
  /\ next_datapoint_id' = next_datapoint_id + 1
  /\ UNCHANGED <<now, next_span_id, next_item_id, apiVars>>

\* enqueue of an existing datapoint: QueueItem::new followed by
\* PersistentStore::save_queue_item
EnqueueItem(dp_id) ==
  /\ dp_id \in DOMAIN store.datapoints
  /\ next_item_id <= MaxItems
  /\ StoreBegin(save_queue_item_pre(store, QueueItem_new(next_item_id,
                                                         store.datapoints[dp_id].dataset_id,
                                                         dp_id, now)),
                "save_queue_item", <<"item", next_item_id>>)
  /\ next_item_id' = next_item_id + 1
  /\ UNCHANGED <<now, next_span_id, next_datapoint_id, apiVars>>

DeleteDataset(id) ==
  /\ StoreBegin(delete_dataset_pre(store, id), "delete_dataset", <<"dataset", id>>)
  /\ UNCHANGED <<now, next_span_id, next_item_id, next_datapoint_id, apiVars>>

ClaimQueueItem(id, claimed_by) ==
  /\ StoreBegin(claim_queue_item_pre(store, id, claimed_by, now),
                "claim_queue_item", <<"item", id>>)
  /\ UNCHANGED <<now, next_span_id, next_item_id, next_datapoint_id, apiVars>>

CompleteQueueItem(id, edited_data) ==
  /\ StoreBegin(complete_queue_item_pre(store, id, edited_data),
                "complete_queue_item", <<"item", id>>)
  /\ UNCHANGED <<now, next_span_id, next_item_id, next_datapoint_id, apiVars>>

\* ---- handlers: each takes the write lease, calls the store, and publishes

\* `state.store.write().await` followed by the store call, up to its first await
LockAndCall(r, res, op, key, req) ==
  /\ reqs[r] = IdleReq
  /\ lease = NoHolder
  /\ StoreBegin(res, op, key)
  /\ lease' = r
  /\ reqs' = [reqs EXCEPT ![r] = req]
  /\ UNCHANGED <<bus, subs, sent, reads, orgs, host>>

\* create_span handler, up to the await inside w.insert
create_span(r, trace_id, kind) ==
  /\ next_span_id <= MaxSpans
  /\ LET span == SpanBuilder_build(next_span_id, trace_id, kind)
     IN LockAndCall(r, insert_pre(store, span), "insert", <<"span", span.id>>,
                    [h |-> "create_span", at |-> "call", ev |-> SpanCreated(span)])
  /\ next_span_id' = next_span_id + 1
  /\ UNCHANGED <<now, next_item_id, next_datapoint_id>>

\* create_span handler for a request with `parent_id: Some(parent_id)`: the
\* builder takes the id as it is and the span is inserted like any other
create_span_with_parent(r, trace_id, kind, parent_id) ==
  /\ next_span_id <= MaxSpans
  /\ LET span == SpanBuilder_parent(SpanBuilder_build(next_span_id, trace_id, kind), parent_id)
     IN LockAndCall(r, insert_pre(store, span), "insert", <<"span", span.id>>,
                    [h |-> "create_span", at |-> "call", ev |-> SpanCreated(span)])
  /\ next_span_id' = next_span_id + 1
  /\ UNCHANGED <<now, next_item_id, next_datapoint_id>>

\* complete_span handler, up to the await inside w.complete_span; on a missing or
\* terminal span it returns 404 or 409 with nothing changed
complete_span(r, span_id, output) ==
  /\ span_id \in DOMAIN store.memory.spans
  /\ ~is_terminal(store.memory.spans[span_id].status)
  /\ LockAndCall(r, complete_span_pre(store, span_id, output, now), "complete_span",
                 <<"span", span_id>>, [h |-> "complete_span", at |-> "call", ev |-> NoEvent])
  /\ UNCHANGED <<now, next_span_id, next_item_id, next_datapoint_id>>

\* delete_span handler, up to the await inside w.delete_span; on a missing span it
\* returns 404 with nothing changed
delete_span(r, span_id) ==
  /\ span_id \in DOMAIN store.memory.spans
  /\ LockAndCall(r, delete_span_pre(store, span_id), "delete_span", <<"span", span_id>>,
                 [h |-> "delete_span", at |-> "call", ev |-> SpanDeleted(span_id)])
  /\ UNCHANGED <<now, next_span_id, next_item_id, next_datapoint_id>>

\* enqueue_datapoints handler: takes the write lease and checks the dataset
enqueue_datapoints(r, dataset_id, datapoint_ids) ==
  /\ reqs[r] = IdleReq
  /\ lease = NoHolder
  /\ dataset_id \in DOMAIN store.datasets
  /\ lease' = r
  /\ reqs' = [reqs EXCEPT ![r] = [h |-> "enqueue_datapoints", at |-> "loop", ev |-> NoEvent,
                                  dataset_id |-> dataset_id, left |-> datapoint_ids]]
  /\ UNCHANGED <<store, call, last, now, orgs, host, next_span_id, next_item_id,
                 next_datapoint_id,
                 dirty, bus, subs, sent, reads>>

\* enqueue_datapoints, one turn of `for dp_id in req.datapoint_ids` up to the send,
\* or the return after the last turn, which drops the lease
enqueue_loop(r) ==
  /\ reqs[r].h = "enqueue_datapoints"
  /\ reqs[r].at = "loop"
  /\ IF reqs[r].left = <<>>
     THEN /\ lease' = NoHolder
          /\ reqs' = [reqs EXCEPT ![r] = IdleReq]
          /\ UNCHANGED next_item_id
     ELSE LET dp_id == Head(reqs[r].left)
              found == /\ dp_id \in DOMAIN store.datapoints
                       /\ store.datapoints[dp_id].dataset_id = reqs[r].dataset_id
              item == QueueItem_new(next_item_id, reqs[r].dataset_id, dp_id, now)
          IN /\ found => next_item_id <= MaxItems
             /\ reqs' = [reqs EXCEPT ![r].left = Tail(@),
                                     ![r].at = IF found THEN "publish" ELSE "loop",
                                     ![r].ev = IF found THEN QueueItemUpdated(item)
                                               ELSE NoEvent]
             /\ next_item_id' = IF found THEN next_item_id + 1 ELSE next_item_id
             /\ UNCHANGED lease
  /\ UNCHANGED <<store, call, last, now, orgs, host, next_span_id, next_datapoint_id, dirty,
                 bus, subs, sent, reads>>

\* import_file handler: the dataset check under a read lease; the multipart field
\* is read afterwards
import_file(r, dataset_id, kinds) ==
  /\ reqs[r] = IdleReq
  /\ lease = NoHolder
  /\ dataset_id \in DOMAIN store.datasets
  /\ reqs' = [reqs EXCEPT ![r] = [h |-> "import_file", at |-> "field", ev |-> NoEvent,
                                  dataset_id |-> dataset_id, left |-> kinds]]
  /\ UNCHANGED <<store, call, last, now, orgs, host, next_span_id, next_item_id,
                 next_datapoint_id,
                 dirty, lease, bus, subs, sent, reads>>

\* import_file: `let mut w = state.store.write().await` once the field is parsed
import_lock(r) ==
  /\ reqs[r].h = "import_file"
  /\ reqs[r].at = "field"
  /\ lease = NoHolder
  /\ lease' = r
  /\ reqs' = [reqs EXCEPT ![r].at = "loop"]
  /\ UNCHANGED <<store, call, last, now, orgs, host, next_span_id, next_item_id,
                 next_datapoint_id,
                 dirty, bus, subs, sent, reads>>

\* import_file, one turn of `for kind in kinds` up to the send, or the end of the
\* field, which drops the lease before the handler returns
import_loop(r) ==
  /\ reqs[r].h = "import_file"
  /\ reqs[r].at = "loop"
  /\ IF reqs[r].left = <<>>
     THEN /\ lease' = NoHolder
          /\ reqs' = [reqs EXCEPT ![r] = IdleReq]
          /\ UNCHANGED next_datapoint_id
     ELSE /\ next_datapoint_id <= MaxDatapoints
          /\ reqs' = [reqs EXCEPT
                        ![r].left = Tail(@), ![r].at = "publish",
                        ![r].ev = DatapointCreated(
                                    Datapoint_new(next_datapoint_id, reqs[r].dataset_id))]
          /\ next_datapoint_id' = next_datapoint_id + 1
          /\ UNCHANGED lease
  /\ UNCHANGED <<store, call, last, now, orgs, host, next_span_id, next_item_id, dirty,
                 bus, subs, sent, reads>>

\* `state.events_tx.send(event)` of a handler
handler_publish(r) ==
  /\ reqs[r].h # "idle"
  /\ reqs[r].at = "publish"
  /\ CanSend(bus, subs)
  /\ bus' = broadcast_send(bus, reqs[r].ev, subs)
  /\ sent' = IF receiver_count(subs) = 0 THEN sent ELSE Append(sent, reqs[r].ev)
  /\ reqs' = [reqs EXCEPT ![r] = IF reqs[r].h \in LoopHandlers
                                 THEN [reqs[r] EXCEPT !.at = "save"]
                                 ELSE IdleReq]
  /\ UNCHANGED <<store, call, last, now, orgs, host, next_span_id, next_item_id,
                 next_datapoint_id,
                 dirty, lease, subs, reads>>

\* `w.save_queue_item(item)` / `w.save_datapoint(dp)` after the send, up to the
\* backend await
handler_save(r) ==
  /\ reqs[r].h \in LoopHandlers
  /\ reqs[r].at = "save"
  /\ IF reqs[r].h = "enqueue_datapoints"
     THEN StoreBegin(save_queue_item_pre(store, reqs[r].ev.item), "save_queue_item",
                     <<"item", reqs[r].ev.item.id>>)
     ELSE StoreBegin(save_datapoint_pre(store, reqs[r].ev.datapoint), "save_datapoint",
                     <<"datapoint", reqs[r].ev.datapoint.id>>)
  /\ reqs' = [reqs EXCEPT ![r].at = "call"]
  /\ UNCHANGED <<now, orgs, host, next_span_id, next_item_id, next_datapoint_id, lease, bus, subs,
                 sent, reads>>

\* the store call of a handler has returned: a handler that publishes once drops
\* the lease (`drop(w)`) and, if the call succeeded, goes on to the send; a loop
\* handler keeps the lease and goes on with its loop
handler_return(r) ==
  /\ reqs[r].h # "idle"
  /\ reqs[r].at = "call"
  /\ call.op = "none"
  /\ IF reqs[r].h \in LoopHandlers
     THEN /\ reqs' = [reqs EXCEPT ![r].at = "loop"]
          /\ UNCHANGED lease
     ELSE /\ lease' = NoHolder
          /\ reqs' = [reqs EXCEPT ![r] =
                        CASE reqs[r].h = "complete_span" /\ last.ret.tag = "span" ->
                               [@ EXCEPT !.at = "publish", !.ev = SpanCompleted(last.ret.span)]
                          [] reqs[r].h = "delete_span" /\ last.ret = RetBool(TRUE) ->
                               [@ EXCEPT !.at = "publish"]
                          [] reqs[r].h = "create_span" -> [@ EXCEPT !.at = "publish"]
                          [] OTHER -> IdleReq]
  /\ UNCHANGED <<store, call, last, now, orgs, host, next_span_id, next_item_id,
                 next_datapoint_id,
                 dirty, bus, subs, sent, reads>>

\* a subscriber that has received SpanCompleted reads the span: GET /spans/:id
\* under a read lease
follow_up_read(s) ==
  /\ subs[s].active
  /\ subs[s].got.type = "span_completed"
  /\ lease = NoHolder
  /\ reads' = [reads EXCEPT ![s] = get_span(store, subs[s].got.span.id)]
  /\ UNCHANGED <<store, call, last, now, orgs, host, next_span_id, next_item_id,
                 next_datapoint_id,
                 dirty, lease, reqs, bus, subs, sent>>

\* events_tx.subscribe() in the events handler, EventBus::subscribe
Subscribe(s) ==
  /\ ~subs[s].active
  /\ subs' = [subs EXCEPT ![s] = broadcast_subscribe(bus)]
  /\ UNCHANGED <<store, call, last, now, orgs, host, next_span_id, next_item_id,
                 next_datapoint_id,
                 dirty, lease, reqs, bus, sent, reads>>

\* LocalEventBus::publish
Publish(e) ==
  /\ Len(sent) < MaxEvents
  /\ CanSend(bus, subs)
  /\ bus' = broadcast_send(bus, e, subs)
  /\ sent' = IF receiver_count(subs) = 0 THEN sent ELSE Append(sent, e)
  /\ UNCHANGED <<store, call, last, now, orgs, host, next_span_id, next_item_id,
                 next_datapoint_id,
                 dirty, lease, reqs, subs, reads>>

\* EventSubscriber::recv, the BroadcastStream of the events handler
Recv(s) ==
  /\ subs[s].active
  /\ subs[s].next < bus.tail
  /\ subs' = [subs EXCEPT ![s] = broadcast_recv(bus, subs[s])]
  /\ reads' = [reads EXCEPT ![s] = NoResponse]
  /\ UNCHANGED <<store, call, last, now, orgs, host, next_span_id, next_item_id,
                 next_datapoint_id,
                 dirty, lease, reqs, bus, sent>>

\* one poll of the stream the events handler returns
events_poll(s) ==
  /\ subs[s].active
  /\ subs[s].next < bus.tail
  /\ subs' = [subs EXCEPT ![s] = BroadcastStream_next(bus, subs[s])]
  /\ reads' = [reads EXCEPT ![s] = NoResponse]
  /\ UNCHANGED <<store, call, last, now, orgs, host, next_span_id, next_item_id,
                 next_datapoint_id,
                 dirty, lease, reqs, bus, sent>>

\* OrgStoreManager::get, up to its first suspension: in single mode the one store
\* is returned; in per-org mode the cache is read under the read guard, a hit is
\* returned and a miss goes on, the guard released, to open a store
OrgStoreManager_get(r, org_id) ==
  /\ reqs[r] = IdleReq
  /\ IF orgs.mode = "single"
     THEN /\ orgs' = [orgs EXCEPT !.handed[org_id] = @ \cup {0}]
          /\ reqs' = [reqs EXCEPT ![r] = [h |-> "get", at |-> "done", org_id |-> org_id,
                                          ret |-> SomeOf(0)]]
     ELSE IF orgs.stores[org_id] # NoneOf
     THEN /\ orgs' = [orgs EXCEPT !.handed[org_id] = @ \cup orgs.stores[org_id]]
          /\ reqs' = [reqs EXCEPT ![r] = [h |-> "get", at |-> "done", org_id |-> org_id,
                                          ret |-> orgs.stores[org_id]]]
     ELSE /\ reqs' = [reqs EXCEPT ![r] = [h |-> "get", at |-> "open", org_id |-> org_id,
                                          ret |-> NoneOf]]
          /\ UNCHANGED orgs
  /\ UNCHANGED <<store, call, last, now, next_span_id, next_item_id, next_datapoint_id,
                 dirty, lease, bus, subs, sent, reads, host>>

\* TurbopufferBackend::new and PersistentStore::open(..).await have answered: an
\* error is returned to the caller, a store is wrapped in a new Arc
get_open(r, ok) ==
  /\ reqs[r].h = "get"
  /\ reqs[r].at = "open"
  /\ orgs.opened < MaxOpens
  /\ IF ok
     THEN /\ orgs' = [orgs EXCEPT !.opened = @ + 1,
                                  !.created[reqs[r].org_id] = @ \cup {orgs.opened + 1}]
          /\ reqs' = [reqs EXCEPT ![r].at = "insert", ![r].ret = SomeOf(orgs.opened + 1)]
     ELSE /\ reqs' = [reqs EXCEPT ![r].at = "done"]
          /\ UNCHANGED orgs
  /\ UNCHANGED <<store, call, last, now, next_span_id, next_item_id, next_datapoint_id,
                 dirty, lease, bus, subs, sent, reads, host>>

\* `stores.write().await`, `cache.insert(org_id, store.clone())`, `Ok(store)`
get_insert(r) ==
  /\ reqs[r].h = "get"
  /\ reqs[r].at = "insert"
  /\ orgs' = [orgs EXCEPT !.stores[reqs[r].org_id] = reqs[r].ret,
                          !.handed[reqs[r].org_id] = @ \cup reqs[r].ret]
  /\ reqs' = [reqs EXCEPT ![r].at = "done"]
  /\ UNCHANGED <<store, call, last, now, next_span_id, next_item_id, next_datapoint_id,
                 dirty, lease, bus, subs, sent, reads, host>>

\* the caller has its result and the task ends
get_done(r) ==
  /\ reqs[r].h = "get"
  /\ reqs[r].at = "done"
  /\ reqs' = [reqs EXCEPT ![r] = IdleReq]
  /\ UNCHANGED <<store, call, last, now, next_span_id, next_item_id, next_datapoint_id,
                 dirty, lease, bus, subs, sent, reads, orgs, host>>

\* ---- the transition handlers with their error answers

TransitionHandlers ==
  {"complete_span", "fail_span", "claim_queue_item", "submit_queue_item"}

\* a handler that has determined its response status
Answered(h, id, status) == [h |-> h, at |-> "answered", id |-> id, status |-> status]

\* the body the complete_span and fail_span handlers share: under the write lease,
\* 404 for a span that is not stored, 409 for a terminal one, otherwise the store
\* call res, whose None is answered 404
span_transition(r, h, span_id, res) ==
  /\ reqs[r] = IdleReq
  /\ lease = NoHolder
  /\ IF span_id \notin DOMAIN store.memory.spans
     THEN /\ reqs' = [reqs EXCEPT ![r] = Answered(h, span_id, 404)]
          /\ UNCHANGED <<store, call, last, dirty, lease>>
     ELSE IF is_terminal(store.memory.spans[span_id].status)
     THEN /\ reqs' = [reqs EXCEPT ![r] = Answered(h, span_id, 409)]
          /\ UNCHANGED <<store, call, last, dirty, lease>>
     ELSE /\ StoreBegin(res, h, <<"span", span_id>>)
          /\ lease' = r
          /\ reqs' = [reqs EXCEPT ![r] =
                        Answered(h, span_id, IF res.ret = RetNone THEN 404 ELSE 200)]
  /\ UNCHANGED <<now, orgs, host, next_span_id, next_item_id, next_datapoint_id,
                 bus, subs, sent, reads>>

\* complete_span handler with its 404 and 409 answers
complete_span_or_reject(r, span_id, output) ==
  span_transition(r, "complete_span", span_id, complete_span_pre(store, span_id, output, now))

\* fail_span handler
fail_span(r, span_id, error) ==
  span_transition(r, "fail_span", span_id, fail_span_pre(store, span_id, error, now))

\* claim_queue_item handler: `.ok_or(StatusCode::CONFLICT)` on the store's answer
claim_queue_item(r, item_id, claimed_by) ==
  /\ reqs[r] = IdleReq
  /\ lease = NoHolder
  /\ LET res == claim_queue_item_pre(store, item_id, claimed_by, now)
     IN /\ StoreBegin(res, "claim_queue_item", <<"item", item_id>>)
        /\ lease' = IF res.call = NoCall THEN NoHolder ELSE r
        /\ reqs' = [reqs EXCEPT ![r] =
                      Answered("claim_queue_item", item_id,
                               IF res.ret = RetNone THEN 409 ELSE 200)]
  /\ UNCHANGED <<now, orgs, host, next_span_id, next_item_id, next_datapoint_id,
                 bus, subs, sent, reads>>

\* submit_queue_item handler, up to its first await: 404 for an item that is not
\* stored, 409 for one that is not claimed; with edited data and a stored
\* datapoint the datapoint is saved first, otherwise the item is completed
submit_queue_item(r, item_id, edited_data) ==
  /\ reqs[r] = IdleReq
  /\ lease = NoHolder
  /\ IF item_id \notin DOMAIN store.queue_items
     THEN /\ reqs' = [reqs EXCEPT ![r] = Answered("submit_queue_item", item_id, 404)]
          /\ UNCHANGED <<store, call, last, dirty, lease>>
     ELSE IF store.queue_items[item_id].status # "claimed"
     THEN /\ reqs' = [reqs EXCEPT ![r] = Answered("submit_queue_item", item_id, 409)]
          /\ UNCHANGED <<store, call, last, dirty, lease>>
     ELSE LET qi == store.queue_items[item_id]
              res == complete_queue_item_pre(store, item_id, edited_data)
          IN IF edited_data # NoneOf /\ qi.datapoint_id \in DOMAIN store.datapoints
             THEN LET dp == store.datapoints[qi.datapoint_id]
                      updated_dp == [id |-> dp.id, dataset_id |-> dp.dataset_id,
                                     kind |-> edited_data]
                  IN /\ StoreBegin(save_datapoint_pre(store, updated_dp), "save_datapoint",
                                   <<"datapoint", dp.id>>)
                     /\ lease' = r
                     /\ reqs' = [reqs EXCEPT ![r] =
                                   [h |-> "submit_queue_item", at |-> "complete",
                                    id |-> item_id, edited_data |-> edited_data]]
             ELSE /\ StoreBegin(res, "complete_queue_item", <<"item", item_id>>)
                  /\ lease' = r
                  /\ reqs' = [reqs EXCEPT ![r] =
                                Answered("submit_queue_item", item_id,
                                         IF res.ret = RetNone THEN 409 ELSE 200)]
  /\ UNCHANGED <<now, orgs, host, next_span_id, next_item_id, next_datapoint_id,
                 bus, subs, sent, reads>>

\* submit_queue_item after save_datapoint has returned: w.complete_queue_item
submit_complete(r) ==
  /\ reqs[r].h = "submit_queue_item"
  /\ reqs[r].at = "complete"
  /\ LET res == complete_queue_item_pre(store, reqs[r].id, reqs[r].edited_data)
     IN /\ StoreBegin(res, "complete_queue_item", <<"item", reqs[r].id>>)
        /\ reqs' = [reqs EXCEPT ![r] =
                      Answered("submit_queue_item", reqs[r].id,
                               IF res.ret = RetNone THEN 409 ELSE 200)]
  /\ UNCHANGED <<now, orgs, host, next_span_id, next_item_id, next_datapoint_id, lease,
                 bus, subs, sent, reads>>

\* the store call, if any, has returned: the lease is dropped, a 200 sends its
\* event, and the response goes out
transition_respond(r) ==
  /\ reqs[r].h \in TransitionHandlers
  /\ reqs[r].at = "answered"
  /\ call.op = "none"
  /\ lease' = IF lease = r THEN NoHolder ELSE lease
  /\ LET ev == CASE reqs[r].h = "complete_span" -> SpanCompleted(last.ret.span)
                 [] reqs[r].h = "fail_span" -> SpanFailed(last.ret.span)
                 [] OTHER -> QueueItemUpdated(last.ret.item)
     IN IF reqs[r].status = 200
        THEN /\ bus' = broadcast_send(bus, ev, subs)
             /\ sent' = IF receiver_count(subs) = 0 THEN sent ELSE Append(sent, ev)
        ELSE UNCHANGED <<bus, sent>>
  /\ reqs' = [reqs EXCEPT ![r] = IdleReq]
  /\ UNCHANGED <<store, call, last, now, orgs, host, next_span_id, next_item_id,
                 next_datapoint_id, dirty, subs, reads>>

\* ---- cloud mode: requests that AuthMiddleware has let through with the
\* AuthContext ctx put into the request extensions. The handlers take
\* `State(state)` only and work on `state.store`; they do not read ctx.

\* create_span for a request with context ctx, up to the await inside w.insert
create_span_as(ctx, trace_id) ==
  /\ next_span_id <= MaxSpans
  /\ StoreBegin(insert_pre(store, SpanBuilder_build(next_span_id, trace_id, "llm_call")),
                "insert", <<"span", next_span_id>>)
  /\ next_span_id' = next_span_id + 1
  /\ host' = [host EXCEPT !.owner = Put(@, next_span_id, ctx.org_id),
                          !.response = [h |-> "create_span", ctx |-> ctx, status |-> 201]]
  /\ UNCHANGED <<now, next_item_id, next_datapoint_id, lease, reqs, bus, subs, sent,
                 reads, orgs>>

\* list_spans for a request with context ctx and no filter set:
\* `r.filter_spans(&filter)` under the read lock
list_spans(ctx) ==
  /\ call.op = "none"
  /\ host' = [host EXCEPT !.response =
                [h |-> "list_spans", ctx |-> ctx, status |-> 200,
                 spans |-> {store.memory.spans[id] : id \in DOMAIN store.memory.spans}]]
  /\ UNCHANGED <<store, call, last, now, next_span_id, next_item_id, next_datapoint_id,
                 dirty, lease, reqs, bus, subs, sent, reads, orgs>>

\* clear_all_traces for a request with context ctx, up to the await inside w.clear
clear_all_traces(ctx) ==
  /\ StoreBegin(clear_pre(store), "clear", NoKey)
  /\ host' = [host EXCEPT !.response = [h |-> "clear_all_traces", ctx |-> ctx,
                                        status |-> 200]]
  /\ UNCHANGED <<now, next_span_id, next_item_id, next_datapoint_id, lease, reqs, bus,
                 subs, sent, reads, orgs>>

\* ---- DELETE /traces/:id

\* delete_trace handler, up to the first await inside w.delete_trace; the answer
\* is decided by the count the store returns: 200 if spans were deleted, 404
\* otherwise
delete_trace(r, trace_id) ==
  /\ reqs[r] = IdleReq
  /\ lease = NoHolder
  /\ LET res == delete_trace_pre(store, trace_id)
     IN /\ StoreBegin(res, "delete_trace", <<"trace", trace_id>>)
        /\ reqs' = [reqs EXCEPT ![r] =
                      [h |-> "delete_trace", at |-> "answered", id |-> trace_id,
                       status |-> IF res.ret.n > 0 THEN 200 ELSE 404]]
  /\ lease' = r
  /\ UNCHANGED <<now, orgs, host, next_span_id, next_item_id, next_datapoint_id,
                 bus, subs, sent, reads>>

\* w.delete_trace has returned: `drop(w)`, TraceDeleted is sent on a 200, and
\* the response goes out
delete_trace_respond(r) ==
  /\ reqs[r].h = "delete_trace"
  /\ reqs[r].at = "answered"
  /\ call.op = "none"
  /\ lease' = NoHolder
  /\ IF reqs[r].status = 200
     THEN /\ bus' = broadcast_send(bus, TraceDeleted(reqs[r].id), subs)
          /\ sent' = IF receiver_count(subs) = 0 THEN sent
                     ELSE Append(sent, TraceDeleted(reqs[r].id))
     ELSE UNCHANGED <<bus, sent>>
  /\ reqs' = [reqs EXCEPT ![r] = IdleReq]
  /\ UNCHANGED <<store, call, last, now, orgs, host, next_span_id, next_item_id,
                 next_datapoint_id, dirty, subs, reads>>

\* ------------------------------------------------------------- the proxy

Providers == {"anthropic", "openai"}

\* a JSON response body, by the fields extract_tokens looks at
NoUsage ==
  [prompt_tokens |-> NoneOf, completion_tokens |-> NoneOf, input_tokens |-> NoneOf,
   output_tokens |-> NoneOf, prompt_eval_count |-> NoneOf, eval_count |-> NoneOf]
OpenAiUsage == [NoUsage EXCEPT !.prompt_tokens = SomeOf(10), !.completion_tokens = SomeOf(20)]
AnthropicUsage == [NoUsage EXCEPT !.input_tokens = SomeOf(10), !.output_tokens = SomeOf(20)]
OllamaUsage == [NoUsage EXCEPT !.prompt_eval_count = SomeOf(10), !.eval_count = SomeOf(20)]
Bodies == {NoUsage, OpenAiUsage, AnthropicUsage, OllamaUsage}

\* Option::or_else
or_else(a, b) == IF a # NoneOf THEN a ELSE b

\* extract_tokens
extract_tokens(body, provider) ==
  CASE provider = "anthropic" -> <<body.input_tokens, body.output_tokens>>
    [] provider = "ollama" -> <<body.prompt_eval_count, body.eval_count>>
    [] OTHER -> <<or_else(body.prompt_tokens, body.prompt_eval_count),
                  or_else(body.completion_tokens, body.eval_count)>>

\* what the upstream does with a request: the send fails, or it answers with a
\* status and the body cannot be read, or it answers with a status and a body
UpstreamResults ==
  {[send |-> "err"]}
    \cup [send : {"ok"}, status : {200, 500}, read : {"err"}]
    \cup [send : {"ok"}, status : {200, 500}, read : {"ok"}, body : Bodies]

\* StatusCode::is_success
is_success(status) == status >= 200 /\ status < 300

\* the output payload in CaptureMode::Full with the token counts inserted
output_with_tokens(body, tokens) ==
  SomeOf([payload |-> body, _input_tokens |-> tokens[1], _output_tokens |-> tokens[2]])

\* proxy_handler, up to the await inside store.insert: a body that cannot be read
\* is answered 400 before any span exists
proxy_handler(r, body_ok, provider) ==
  /\ reqs[r] = IdleReq
  /\ IF ~body_ok
     THEN /\ reqs' = [reqs EXCEPT ![r] =
                        [h |-> "proxy", at |-> "done", span_id |-> NoneOf,
                         provider |-> provider, stage |-> "body", up |-> [send |-> "none"],
                         response |-> 400]]
          /\ UNCHANGED <<store, call, last, dirty, lease, next_span_id>>
     ELSE /\ lease = NoHolder
          /\ next_span_id <= MaxSpans
          /\ StoreBegin(insert_pre(store, SpanBuilder_build(next_span_id, next_span_id,
                                                            "llm_call")),
                        "insert", <<"span", next_span_id>>)
          /\ lease' = r
          /\ next_span_id' = next_span_id + 1
          /\ reqs' = [reqs EXCEPT ![r] =
                        [h |-> "proxy", at |-> "insert", span_id |-> SomeOf(next_span_id),
                         provider |-> provider, stage |-> "none", up |-> [send |-> "none"],
                         response |-> 0]]
  /\ UNCHANGED <<now, orgs, host, next_item_id, next_datapoint_id, bus, subs, sent, reads>>

\* store.insert has returned: the guard goes out of scope and the request is sent
proxy_send(r) ==
  /\ reqs[r].h = "proxy"
  /\ reqs[r].at = "insert"
  /\ call.op = "none"
  /\ lease' = NoHolder
  /\ reqs' = [reqs EXCEPT ![r].at = "upstream"]
  /\ UNCHANGED <<store, call, last, now, orgs, host, next_span_id, next_item_id,
                 next_datapoint_id, dirty, bus, subs, sent, reads>>

\* the upstream has answered: `match result`, up to the await inside the store
\* call that ends the span
proxy_result(r, up) ==
  /\ reqs[r].h = "proxy"
  /\ reqs[r].at = "upstream"
  /\ lease = NoHolder
  /\ LET span_id == CHOOSE id \in reqs[r].span_id : TRUE
         key == <<"span", span_id>>
     IN IF up.send = "err"
        THEN /\ StoreBegin(fail_span_pre(store, span_id, "Request failed", now),
                           "fail_span", key)
             /\ reqs' = [reqs EXCEPT ![r].at = "finish", ![r].stage = "send", ![r].up = up,
                                     ![r].response = 502]
        ELSE IF up.read = "err"
        THEN /\ StoreBegin(fail_span_pre(store, span_id, "Failed to read response", now),
                           "fail_span", key)
             /\ reqs' = [reqs EXCEPT ![r].at = "finish", ![r].stage = "read", ![r].up = up,
                                     ![r].response = 502]
        ELSE /\ IF is_success(up.status)
                THEN StoreBegin(complete_span_pre(store, span_id,
                                  output_with_tokens(up.body,
                                    extract_tokens(up.body, reqs[r].provider)), now),
                                "complete_span", key)
                ELSE StoreBegin(fail_span_pre(store, span_id, "HTTP 500", now),
                                "fail_span", key)
             /\ reqs' = [reqs EXCEPT ![r].at = "finish", ![r].up = up,
                                     ![r].response = up.status]
  /\ lease' = r
  /\ UNCHANGED <<now, orgs, host, next_span_id, next_item_id, next_datapoint_id,
                 bus, subs, sent, reads>>

\* the store call that ended the span has returned: the guard is dropped and the
\* response goes to the client
proxy_respond(r) ==
  /\ reqs[r].h = "proxy"
  /\ reqs[r].at = "finish"
  /\ call.op = "none"
  /\ lease' = NoHolder
  /\ reqs' = [reqs EXCEPT ![r].at = "done"]
  /\ UNCHANGED <<store, call, last, now, orgs, host, next_span_id, next_item_id,
                 next_datapoint_id, dirty, bus, subs, sent, reads>>

\* the task of an answered request ends
proxy_done(r) ==
  /\ reqs[r].h = "proxy"
  /\ reqs[r].at = "done"
  /\ reqs' = [reqs EXCEPT ![r] = IdleReq]
  /\ UNCHANGED <<store, call, last, now, orgs, host, next_span_id, next_item_id,
                 next_datapoint_id, dirty, lease, bus, subs, sent, reads>>

\* the handler future is dropped while it awaits the upstream: the client has
\* closed the connection, or the server is shut down
proxy_cancel(r) ==
  /\ reqs[r].h = "proxy"
  /\ reqs[r].at = "upstream"
  /\ reqs' = [reqs EXCEPT ![r] = IdleReq]
  /\ UNCHANGED <<store, call, last, now, orgs, host, next_span_id, next_item_id,
                 next_datapoint_id, dirty, lease, bus, subs, sent, reads>>

\* ---------------------------------------------------------- authentication

\* a token is modelled by what the checks look at: the text it starts with, the
\* rest of its first 16 characters (id), and the remainder (secret); a JWT by the
\* secret it is signed with, whether its exp has passed, and its claims
KEY_PREFIX == "tw_sk_"
JwtSecret == "jwt_secret"

\* generate_api_key: KEY_PREFIX followed by random characters
generate_api_key(id, secret) == [starts_with |-> KEY_PREFIX, id |-> id, secret |-> secret]

GoodKey == generate_api_key("k1", "s1")
TamperedKey == [GoodKey EXCEPT !.secret = "s2"]
LlmfsKey == [GoodKey EXCEPT !.starts_with = "llmfs_sk_"]
GoodJwt == [starts_with |-> "ey", signed_with |-> JwtSecret, expired |-> FALSE,
            org |-> "o1", sub |-> "u1"]
ForgedJwt == [GoodJwt EXCEPT !.signed_with = "other"]
ExpiredJwt == [GoodJwt EXCEPT !.expired = TRUE]

\* hash_api_key, verify_api_key: bcrypt
hash_api_key(key) == [bcrypt |-> key]
verify_api_key(key, hash) == hash = hash_api_key(key)

\* &token[..16]
key_prefix(key) == <<key.starts_with, key.id>>

\* EnvApiKeyLookup::from_env: the keys of TRACEWAY_API_KEYS that start with tw_sk_
EnvApiKeyLookup_from_env(keys) ==
  {[prefix |-> key_prefix(k), key_hash |-> hash_api_key(k), org_id |-> "nil"] :
     k \in {x \in keys : x.starts_with = "tw_sk_"}}

\* the lookup of the deployment: GoodKey is registered
Lookup == EnvApiKeyLookup_from_env({GoodKey})

\* EnvApiKeyLookup::lookup_api_key
lookup_api_key(lookup, prefix) == {k \in lookup : k.prefix = prefix}

AuthOk(ctx) == [ok |-> TRUE, ctx |-> ctx, status |-> 200]
\* AuthError::status_code of MissingAuth, InvalidFormat, InvalidApiKey,
\* InvalidSession and ExpiredSession
AuthErr(e) == [ok |-> FALSE, error |-> e, status |-> 401]

\* AuthContext::local, from_api_key, from_session
AuthContext_local == [org_id |-> "nil", user_id |-> NoneOf, is_local_mode |-> TRUE,
                      is_api_key |-> FALSE]
AuthContext_from_api_key(org_id) ==
  [org_id |-> org_id, user_id |-> NoneOf, is_local_mode |-> FALSE, is_api_key |-> TRUE]
\* AuthContext::from_api_key with the scopes of the key kept, and has_scope
AuthContext_from_api_key_scopes(org_id, scopes) ==
  [org_id |-> org_id, user_id |-> NoneOf, scopes |-> scopes, is_local_mode |-> FALSE,
   is_api_key |-> TRUE]
has_scope(ctx, scope) == ctx.is_local_mode \/ scope \in ctx.scopes
\* the contexts of cloud-mode requests: an API key of an organisation that holds
\* traces-read only, or traces-read and traces-write
Contexts ==
  {AuthContext_from_api_key_scopes(o, sc) :
     o \in OrgIds, sc \in {{"traces_read"}, {"traces_read", "traces_write"}}}
AuthContext_from_session(org_id, user_id) ==
  [org_id |-> org_id, user_id |-> SomeOf(user_id), is_local_mode |-> FALSE,
   is_api_key |-> FALSE]

\* verify_session followed by AuthContext::from_session
verify_session(token, secret) ==
  IF token.starts_with # "ey" \/ token.signed_with # secret THEN AuthErr("InvalidSession")
  ELSE IF token.expired THEN AuthErr("ExpiredSession")
  ELSE AuthOk(AuthContext_from_session(token.org, token.sub))

\* the header, cookie and query values a request is made of
AuthHeaders ==
  {NoneOf, SomeOf([scheme |-> "Basic"])}
    \cup {SomeOf([scheme |-> "Bearer", token |-> t]) :
            t \in {GoodKey, TamperedKey, LlmfsKey, GoodJwt, ForgedJwt, ExpiredJwt}}
CookieHeaders ==
  {NoneOf, SomeOf(<<[name |-> "theme", value |-> SomeOf("dark")]>>),
   SomeOf(<<[name |-> "session", value |-> NoneOf]>>)}
    \cup {SomeOf(<<[name |-> "session", value |-> SomeOf(t)]>>) : t \in {GoodJwt, ForgedJwt}}
QueryStrings ==
  {NoneOf, SomeOf(<<[name |-> "limit", value |-> "10"]>>)}
    \cup {SomeOf(<<[name |-> "token", value |-> t]>>) : t \in {GoodJwt, ExpiredJwt}}

\* the loop over the cookies of the header: the first non-empty session cookie
\* decides
RECURSIVE session_cookie(_, _)
session_cookie(cookies, secret) ==
  IF cookies = <<>> THEN NoneOf
  ELSE IF Head(cookies).name = "session" /\ Head(cookies).value # NoneOf
       THEN {verify_session(v, secret) : v \in Head(cookies).value}
       ELSE session_cookie(Tail(cookies), secret)

\* extract_token_from_query: the value of the first token= parameter
RECURSIVE extract_token_from_query(_)
extract_token_from_query(query) ==
  IF query = <<>> THEN NoneOf
  ELSE IF Head(query).name = "token" THEN SomeOf(Head(query).value)
       ELSE extract_token_from_query(Tail(query))

\* extract_auth of the api crate
extract_auth(auth_header, cookie_header, query_string, secret, lookup) ==
  IF auth_header # NoneOf
  THEN LET h == CHOOSE x \in auth_header : TRUE
       IN IF h.scheme = "Bearer"
          THEN IF h.token.starts_with = "llmfs_sk_"
               THEN LET found == lookup_api_key(lookup, key_prefix(h.token))
                    IN IF found = NoneOf THEN AuthErr("InvalidApiKey")
                       ELSE LET k == CHOOSE x \in found : TRUE
                            IN IF ~verify_api_key(h.token, k.key_hash)
                               THEN AuthErr("InvalidApiKey")
                               ELSE AuthOk(AuthContext_from_api_key(k.org_id))
               ELSE verify_session(h.token, secret)
          ELSE AuthErr("InvalidFormat")
  ELSE LET from_cookie == IF cookie_header = NoneOf THEN NoneOf
                          ELSE session_cookie(CHOOSE c \in cookie_header : TRUE, secret)
           from_query == IF query_string = NoneOf THEN NoneOf
                         ELSE extract_token_from_query(CHOOSE q \in query_string : TRUE)
       IN IF from_cookie # NoneOf THEN CHOOSE x \in from_cookie : TRUE
          ELSE IF from_query # NoneOf
               THEN verify_session(CHOOSE t \in from_query : TRUE, secret)
               ELSE AuthErr("MissingAuth")

\* AuthMiddleware::call
AuthMiddleware_call(local_mode, auth_header, cookie_header, query_string) ==
  IF local_mode THEN AuthOk(AuthContext_local)
  ELSE extract_auth(auth_header, cookie_header, query_string, JwtSecret, Lookup)

\* a request to a protected route passes the middleware
auth_request(r, local_mode, auth_header, cookie_header, query_string) ==
  /\ reqs[r] = IdleReq
  /\ reqs' = [reqs EXCEPT ![r] =
                [h |-> "auth", at |-> "done", local_mode |-> local_mode,
                 auth_header |-> auth_header, cookie_header |-> cookie_header,
                 query_string |-> query_string,
                 result |-> AuthMiddleware_call(local_mode, auth_header, cookie_header,
                                                query_string)]]
  /\ UNCHANGED <<store, call, last, now, orgs, host, next_span_id, next_item_id,
                 next_datapoint_id, dirty, lease, bus, subs, sent, reads>>

\* the response has gone out
auth_done(r) ==
  /\ reqs[r].h = "auth"
  /\ reqs' = [reqs EXCEPT ![r] = IdleReq]
  /\ UNCHANGED <<store, call, last, now, orgs, host, next_span_id, next_item_id,
                 next_datapoint_id, dirty, lease, bus, subs, sent, reads>>

\* ---- API keys kept in the AuthStore

\* the ApiKey row generate_api_key returns for storage, with the expiry the
\* row is given afterwards
ApiKey_new(id, key, org_id, expires_at) ==
  [id |-> id, org_id |-> org_id, key_prefix |-> key_prefix(key),
   key_hash |-> hash_api_key(key), last_used_at |-> NoneOf, expires_at |-> expires_at]

\* a key of the recognised format that expires at time 1
ExpiringKey == [starts_with |-> "llmfs_sk_", id |-> "k2", secret |-> "s1"]

\* the api_keys table of the deployment: a key of the format extract_auth
\* recognises, one that expires, and one as generate_api_key makes them
AuthStoreRows ==
  <<ApiKey_new(1, LlmfsKey, "o1", NoneOf),
    ApiKey_new(2, ExpiringKey, "o1", SomeOf(1)),
    ApiKey_new(3, GoodKey, "o2", NoneOf)>>

\* AuthStore::lookup_api_key_by_prefix
lookup_api_key_by_prefix(api_keys, prefix) ==
  {api_keys[i] : i \in {j \in DOMAIN api_keys : api_keys[j].key_prefix = prefix}}

\* StoreApiKeyLookup::lookup_api_key: the row it answers with, an expired row
\* dropped; for this row it spawns update_api_key_last_used
StoreApiKeyLookup_found(api_keys, prefix, t) ==
  {k \in lookup_api_key_by_prefix(api_keys, prefix) : \A e \in k.expires_at : ~(e < t)}

StoreApiKeyLookup_lookup_api_key(api_keys, prefix, t) ==
  {[prefix |-> k.key_prefix, key_hash |-> k.key_hash, org_id |-> k.org_id] :
     k \in StoreApiKeyLookup_found(api_keys, prefix, t)}

\* CompositeApiKeyLookup::lookup_api_key: the store first, then the environment
CompositeApiKeyLookup_lookup_api_key(api_keys, env, prefix, t) ==
  IF StoreApiKeyLookup_lookup_api_key(api_keys, prefix, t) # NoneOf
  THEN StoreApiKeyLookup_lookup_api_key(api_keys, prefix, t)
  ELSE lookup_api_key(env, prefix)

\* the lookup as extract_auth sees it at time t: what it answers for every prefix
CompositeApiKeyLookup_new(api_keys, env, t) ==
  UNION {CompositeApiKeyLookup_lookup_api_key(api_keys, env, p, t) :
           p \in {api_keys[i].key_prefix : i \in DOMAIN api_keys}
                   \cup {k.prefix : k \in env}}

\* the rows for which extract_auth, given this Authorization header, reaches
\* StoreApiKeyLookup::lookup_api_key and has update_api_key_last_used spawned
lookup_spawns(auth_header, api_keys, t) ==
  IF auth_header = NoneOf THEN {}
  ELSE LET h == CHOOSE x \in auth_header : TRUE
       IN IF h.scheme = "Bearer" /\ h.token.starts_with = "llmfs_sk_"
          THEN {k.id : k \in StoreApiKeyLookup_found(api_keys, key_prefix(h.token), t)}
          ELSE {}

\* the Authorization headers sent to a deployment with stored keys: every stored
\* key, as issued and with a wrong tail
StoreAuthHeaders ==
  {NoneOf}
    \cup {SomeOf([scheme |-> "Bearer", token |-> t]) :
            t \in {LlmfsKey, [LlmfsKey EXCEPT !.secret = "s2"], ExpiringKey,
                   GoodKey, TamperedKey, GoodJwt}}

\* AuthMiddleware::call in cloud mode with a CompositeApiKeyLookup: the lookup
\* spawns the update of last_used_at before extract_auth verifies the key
auth_store_request(r, auth_header) ==
  /\ reqs[r] = IdleReq
  /\ LET result == extract_auth(auth_header, NoneOf, NoneOf, JwtSecret,
                                CompositeApiKeyLookup_new(host.api_keys, Lookup, now))
         ids == lookup_spawns(auth_header, host.api_keys, now)
     IN /\ reqs' = [reqs EXCEPT ![r] =
                      [h |-> "auth", at |-> "done", local_mode |-> FALSE,
                       auth_header |-> auth_header, cookie_header |-> NoneOf,
                       query_string |-> NoneOf, t |-> now, result |-> result]]
        /\ host' = [host EXCEPT !.spawned = @ \cup ids,
                                !.verified = @ \cup (IF result.ok THEN ids ELSE {})]
  /\ UNCHANGED <<store, call, last, now, orgs, next_span_id, next_item_id,
                 next_datapoint_id, dirty, lease, bus, subs, sent, reads>>

\* the spawned task runs AuthStore::update_api_key_last_used; its error is dropped
update_api_key_last_used(id, ok) ==
  /\ id \in host.spawned
  /\ host' = [host EXCEPT !.spawned = @ \ {id},
                          !.api_keys[id].last_used_at = IF ok THEN SomeOf(now) ELSE @]
  /\ UNCHANGED <<store, call, last, now, orgs, next_span_id, next_item_id,
                 next_datapoint_id, dirty, lease, reqs, bus, subs, sent, reads>>

\* ---- the cross-node bus driven by publishers, subscribers and Redis

\* RedisEventBus::publish up to `conn.publish(..).await`
RedisEventBus_publish(e) ==
  /\ host.redis.publishing = NoneOf
  /\ host.redis.returned < MaxEvents
  /\ serde_json_to_string(e) # NoneOf
  /\ host' = [host EXCEPT !.redis.publishing = SomeOf(e)]
  /\ UNCHANGED <<store, call, last, now, orgs, next_span_id, next_item_id,
                 next_datapoint_id, dirty, lease, reqs, bus, subs, sent, reads>>

\* Redis has answered the PUBLISH: on Ok publish returns, on Err it sends the
\* event on local_tx and returns
publish_reply(ok) ==
  /\ host.redis.publishing # NoneOf
  /\ LET e == CHOOSE x \in host.redis.publishing : TRUE
         payload == CHOOSE p \in serde_json_to_string(e) : TRUE
     IN IF ok
        THEN /\ host' = [host EXCEPT !.redis.publishing = NoneOf,
                                     !.redis.returned = @ + 1,
                                     !.redis.channel = redis_publish(host.redis, payload)]
             /\ UNCHANGED <<bus, sent>>
        ELSE /\ host' = [host EXCEPT !.redis.publishing = NoneOf,
                                     !.redis.returned = @ + 1,
                                     !.redis.local_sends = @ + 1]
             /\ bus' = broadcast_send(bus, e, subs)
             /\ sent' = IF receiver_count(subs) = 0 THEN sent ELSE Append(sent, e)
  /\ UNCHANGED <<store, call, last, now, orgs, next_span_id, next_item_id,
                 next_datapoint_id, dirty, lease, reqs, subs, reads>>

\* run_subscriber: get_async_pubsub and subscribe have answered; an error goes
\* back to the loop of start_listener, which sleeps
run_subscriber_connect(ok) ==
  /\ host.redis.listener = "connecting"
  /\ host' = IF ok THEN [host EXCEPT !.redis.listener = "subscribed"]
             ELSE [host EXCEPT !.redis.listener = "sleeping",
                               !.redis.wake = now + ReconnectDelay]
  /\ UNCHANGED <<store, call, last, now, orgs, next_span_id, next_item_id,
                 next_datapoint_id, dirty, lease, reqs, bus, subs, sent, reads>>

\* run_subscriber: the stream has yielded a message; its event is sent on
\* local_tx, a payload that cannot be read is an error that ends run_subscriber
run_subscriber_message(ok) ==
  /\ host.redis.listener = "subscribed"
  /\ host.redis.channel # <<>>
  /\ IF ok
     THEN LET e == CHOOSE x \in serde_json_from_str(Head(host.redis.channel)) : TRUE
          IN /\ host' = [host EXCEPT !.redis.channel = Tail(@),
                                     !.redis.local_sends = @ + 1]
             /\ bus' = broadcast_send(bus, e, subs)
             /\ sent' = IF receiver_count(subs) = 0 THEN sent ELSE Append(sent, e)
     ELSE /\ host' = [host EXCEPT !.redis.channel = <<>>,
                                  !.redis.listener = "sleeping",
                                  !.redis.wake = now + ReconnectDelay]
          /\ UNCHANGED <<bus, sent>>
  /\ UNCHANGED <<store, call, last, now, orgs, next_span_id, next_item_id,
                 next_datapoint_id, dirty, lease, reqs, subs, reads>>

\* run_subscriber: the connection is closed and the stream ends; `while let`
\* falls through to Ok(()), and start_listener breaks out of its loop
run_subscriber_end ==
  /\ host.redis.listener = "subscribed"
  /\ host' = [host EXCEPT !.redis.channel = <<>>, !.redis.listener = "exited"]
  /\ UNCHANGED <<store, call, last, now, orgs, next_span_id, next_item_id,
                 next_datapoint_id, dirty, lease, reqs, bus, subs, sent, reads>>

\* start_listener: the sleep is over, the loop calls run_subscriber again
start_listener_wake ==
  /\ host.redis.listener = "sleeping"
  /\ now >= host.redis.wake
  /\ host' = [host EXCEPT !.redis.listener = "connecting"]
  /\ UNCHANGED <<store, call, last, now, orgs, next_span_id, next_item_id,
                 next_datapoint_id, dirty, lease, reqs, bus, subs, sent, reads>>

\* RedisEventBus::subscribe
RedisEventBus_subscribe(s) ==
  /\ ~subs[s].active
  /\ host.redis.subscriber_count < MaxSubscribes
  /\ host' = [host EXCEPT !.redis.subscriber_count = @ + 1]
  /\ subs' = [subs EXCEPT ![s] = broadcast_subscribe(bus)]
  /\ UNCHANGED <<store, call, last, now, orgs, next_span_id, next_item_id,
                 next_datapoint_id, dirty, lease, reqs, bus, sent, reads>>

\* RedisEventBus::subscriber_count
RedisEventBus_subscriber_count == host.redis.subscriber_count

\* an EventSubscriber is dropped, and its broadcast::Receiver with it
EventSubscriber_drop(s) ==
  /\ subs[s].active
  /\ subs' = [subs EXCEPT ![s] = NoSub]
  /\ UNCHANGED <<store, call, last, now, orgs, host, next_span_id, next_item_id,
                 next_datapoint_id, dirty, lease, reqs, bus, sent, reads>>

\* ---- the daemon serving, signalled, and shutting down

\* axum::serve accepts a connection and starts its handler
server_accept(c) ==
  /\ host.daemon.phase # "exited"
  /\ host.daemon.server[c] = "serving"
  /\ host.daemon.inflight[c] < MaxInflight
  /\ host' = [host EXCEPT !.daemon.inflight[c] = @ + 1]
  /\ UNCHANGED <<store, call, last, now, orgs, next_span_id, next_item_id,
                 next_datapoint_id, dirty, lease, reqs, bus, subs, sent, reads>>

\* a handler returns and its connection is closed
server_handler_done(c) ==
  /\ host.daemon.phase # "exited"
  /\ host.daemon.inflight[c] > 0
  /\ host' = [host EXCEPT !.daemon.inflight[c] = @ - 1]
  /\ UNCHANGED <<store, call, last, now, orgs, next_span_id, next_item_id,
                 next_datapoint_id, dirty, lease, reqs, bus, subs, sent, reads>>

\* main: SIGINT or SIGTERM has arrived, `shutdown_tx.send(true)`, the timeout
\* starts
daemon_signal ==
  /\ host.daemon.phase = "running"
  /\ host' = [host EXCEPT !.daemon.phase = "stopping", !.daemon.shutdown = TRUE,
                          !.daemon.elapsed = 0]
  /\ UNCHANGED <<store, call, last, now, orgs, next_span_id, next_item_id,
                 next_datapoint_id, dirty, lease, reqs, bus, subs, sent, reads>>

\* serve_with_shutdown: shutdown_signal(rx) has resolved, with_graceful_shutdown
\* stops accepting
server_shutdown(c) ==
  /\ host.daemon.phase # "exited"
  /\ host.daemon.shutdown
  /\ host.daemon.server[c] = "serving"
  /\ host' = [host EXCEPT !.daemon.server[c] = "draining"]
  /\ UNCHANGED <<store, call, last, now, orgs, next_span_id, next_item_id,
                 next_datapoint_id, dirty, lease, reqs, bus, subs, sent, reads>>

\* the last connection is closed: axum::serve returns, the supervisor sees
\* *shutdown_rx.borrow() and returns
server_stopped(c) ==
  /\ host.daemon.phase # "exited"
  /\ host.daemon.server[c] = "draining"
  /\ host.daemon.inflight[c] = 0
  /\ host' = [host EXCEPT !.daemon.server[c] = "stopped"]
  /\ UNCHANGED <<store, call, last, now, orgs, next_span_id, next_item_id,
                 next_datapoint_id, dirty, lease, reqs, bus, subs, sent, reads>>

\* a second passes while main waits
daemon_tick ==
  /\ host.daemon.phase = "stopping"
  /\ host.daemon.elapsed < SHUTDOWN_TIMEOUT
  /\ host' = [host EXCEPT !.daemon.elapsed = @ + 1]
  /\ UNCHANGED <<store, call, last, now, orgs, next_span_id, next_item_id,
                 next_datapoint_id, dirty, lease, reqs, bus, subs, sent, reads>>

\* main: the timeout has returned, Ok or Err; main returns, which drops its
\* Arc of the store and the runtime, and with the runtime every task and the
\* handlers they still run
daemon_exit ==
  /\ host.daemon.phase = "stopping"
  /\ shutdown_wait_done(host.daemon)
  /\ host' = [host EXCEPT
                !.daemon.phase = "exited",
                !.daemon.timed_out = \E c \in Components : host.daemon.server[c] # "stopped",
                !.daemon.server = [c \in Components |-> "stopped"],
                !.daemon.inflight = [c \in Components |-> 0],
                !.daemon.released = TRUE]
  /\ UNCHANGED <<store, call, last, now, orgs, next_span_id, next_item_id,
                 next_datapoint_id, dirty, lease, reqs, bus, subs, sent, reads>>

\* post_shutdown: a request to POST /shutdown is handled by the API server,
\* `tx.send(true)` on the watch channel, 202 Accepted
post_shutdown ==
  /\ host.daemon.phase # "exited"
  /\ host.daemon.server["api"] \in {"serving", "draining"}
  /\ host.daemon.inflight["api"] > 0
  /\ host' = [host EXCEPT !.daemon.shutdown = TRUE]
  /\ UNCHANGED <<store, call, last, now, orgs, next_span_id, next_item_id,
                 next_datapoint_id, dirty, lease, reqs, bus, subs, sent, reads>>

\* run_api_supervised / run_proxy_supervised: the server task has ended with an
\* error or a panic. The supervisor returns if the watch value is true or the
\* restarts are used up, otherwise it starts `tokio::time::sleep(backoff)`
server_failed(c) ==
  /\ host.daemon.phase # "exited"
  /\ host.daemon.server[c] \in {"serving", "draining"}
  /\ LET d == host.daemon
         restarts == d.restarts[c] + 1
     IN host' = [host EXCEPT !.daemon =
          IF d.shutdown
          THEN [d EXCEPT !.server[c] = "stopped", !.inflight[c] = 0]
          ELSE IF restarts > MAX_COMPONENT_RESTARTS
          THEN [d EXCEPT !.server[c] = "stopped", !.inflight[c] = 0,
                         !.restarts[c] = restarts]
          ELSE [d EXCEPT !.server[c] = "backoff", !.inflight[c] = 0,
                         !.restarts[c] = restarts, !.sleep[c] = d.backoff[c]]]
  /\ UNCHANGED <<store, call, last, now, orgs, next_span_id, next_item_id,
                 next_datapoint_id, dirty, lease, reqs, bus, subs, sent, reads>>

\* a second of the supervisor's sleep passes
supervisor_sleep(c) ==
  /\ host.daemon.phase # "exited"
  /\ host.daemon.server[c] = "backoff"
  /\ host.daemon.sleep[c] > 0
  /\ host' = [host EXCEPT !.daemon.sleep[c] = @ - 1]
  /\ UNCHANGED <<store, call, last, now, orgs, next_span_id, next_item_id,
                 next_datapoint_id, dirty, lease, reqs, bus, subs, sent, reads>>

\* the sleep is over: the backoff is doubled up to 30 s and the loop spawns the
\* server again, with a clone of shutdown_rx for its shutdown_signal
supervisor_restart(c) ==
  /\ host.daemon.phase # "exited"
  /\ host.daemon.server[c] = "backoff"
  /\ host.daemon.sleep[c] = 0
  /\ host' = [host EXCEPT
                !.daemon.backoff[c] = IF @ * 2 < 30 THEN @ * 2 ELSE 30,
                !.daemon.server[c] = "serving"]
  /\ UNCHANGED <<store, call, last, now, orgs, next_span_id, next_item_id,
                 next_datapoint_id, dirty, lease, reqs, bus, subs, sent, reads>>

\* ---- the database file opened, migrated, and the process killed

\* SqliteBackend::open up to the first migration: the migrations table is
\* created, MAX(version) read
SqliteBackend_open ==
  /\ host.db.at \in {"closed", "failed"}
  /\ host' = [host EXCEPT !.db = run_migrations_from(host.db, current_version(host.db) + 1)]
  /\ UNCHANGED <<store, call, last, now, orgs, next_span_id, next_item_id,
                 next_datapoint_id, dirty, lease, reqs, bus, subs, sent, reads>>

\* run_migrations: execute_batch runs the next statement of the batch
migrate_statement ==
  /\ host.db.at = "migrating"
  /\ host.db.stmt <= Len(MIGRATIONS[host.db.version])
  /\ host' = [host EXCEPT
                !.db = execute_statement(host.db, MIGRATIONS[host.db.version][host.db.stmt])]
  /\ UNCHANGED <<store, call, last, now, orgs, next_span_id, next_item_id,
                 next_datapoint_id, dirty, lease, reqs, bus, subs, sent, reads>>

\* run_migrations: the batch is done, INSERT INTO migrations records the version
migrate_record ==
  /\ host.db.at = "migrating"
  /\ host.db.stmt > Len(MIGRATIONS[host.db.version])
  /\ host' = [host EXCEPT
                !.db = run_migrations_from([host.db EXCEPT !.migrations = @ \cup {host.db.version}],
                                           host.db.version + 1)]
  /\ UNCHANGED <<store, call, last, now, orgs, next_span_id, next_item_id,
                 next_datapoint_id, dirty, lease, reqs, bus, subs, sent, reads>>

\* the process is killed: what the statements have committed stays in the file
crash ==
  /\ host.db.at \in {"migrating", "open"}
  /\ host.db.crashes < MaxCrashes
  /\ host' = [host EXCEPT !.db.at = "closed", !.db.version = 0, !.db.stmt = 0,
                          !.db.crashes = @ + 1]
  /\ UNCHANGED <<store, call, last, now, orgs, next_span_id, next_item_id,
                 next_datapoint_id, dirty, lease, reqs, bus, subs, sent, reads>>

\* Span lifecycle: spans of one trace are created and driven through their
\* transitions, with every payload, kind and clock value; the backend answers Ok
Next ==
  \/ \E k \in {"llm_call"} : Insert(1, k)
  \/ \E id \in SpanIds, o \in OptionOf(Outputs) : CompleteSpan(id, o)
  \/ \E id \in SpanIds, k \in Kinds, o \in OptionOf(Outputs) : CompleteSpanWithKind(id, k, o)
  \/ \E id \in SpanIds, e \in Errors : FailSpan(id, e)
  \/ BackendReply(TRUE)
  \/ Tick

Spec == Init /\ [][Next]_vars

\* Trace index: spans of several traces are inserted, moved to a terminal status
\* and deleted one by one, by trace, or all at once; the backend answers Ok
NextIndex ==
  \/ \E t \in TraceIds : Insert(t, "llm_call")
  \/ \E id \in SpanIds : CompleteSpan(id, NoneOf)
  \/ \E id \in SpanIds : CompleteSpanWithKind(id, "llm_call_tokens", NoneOf)
  \/ \E id \in SpanIds : FailSpan(id, "err")
  \/ \E id \in SpanIds : DeleteSpan(id)
  \/ \E t \in TraceIds : DeleteTrace(t)
  \/ Clear
  \/ BackendReply(TRUE)

SpecIndex == Init /\ [][NextIndex]_vars

\* Write-through: every backend call may answer Ok or Err
NextWrite ==
  \/ Insert(1, "llm_call")
  \/ \E id \in SpanIds : CompleteSpan(id, NoneOf)
  \/ \E id \in SpanIds : FailSpan(id, "err")
  \/ \E id \in SpanIds : DeleteSpan(id)
  \/ DeleteTrace(1)
  \/ SaveTrace(1)
  \/ \E ok \in BOOLEAN : BackendReply(ok)

SpecWrite == Init /\ [][NextWrite]_vars

\* Review queue: items are enqueued, claimed by either user and completed with
\* or without edited data; every backend call may answer Ok or Err
NextQueue ==
  \/ SaveQueueItem
  \/ \E id \in ItemIds, by \in Users : ClaimQueueItem(id, by)
  \/ \E id \in ItemIds, e \in OptionOf(Edits) : CompleteQueueItem(id, e)
  \/ \E ok \in BOOLEAN : BackendReply(ok)

SpecQueue == Init /\ [][NextQueue]_vars

\* Handlers and a subscriber: two request tasks create, complete and delete spans
\* through the handlers while a subscriber of the event stream reads back every
\* span it is told was completed; the backend answers Ok
NextApi ==
  \/ \E r \in Reqs : next_span_id <= MaxApiSpans /\ create_span(r, 1, "llm_call")
  \/ \E r \in Reqs, id \in SpanIds : complete_span(r, id, NoneOf)
  \/ \E r \in Reqs, id \in SpanIds : delete_span(r, id)
  \/ \E r \in Reqs : handler_return(r)
  \/ \E r \in Reqs : handler_publish(r)
  \/ BackendReply(TRUE)
  \/ Subscribe("s1")
  \/ Recv("s1")
  \/ follow_up_read("s1")

SpecApi == Init /\ [][NextApi]_vars

\* a store that holds one dataset with one datapoint, as create_dataset and
\* create_datapoint leave it
InitLease ==
  /\ store = [EmptyStore EXCEPT
               !.datasets = Put(@, 1, [id |-> 1]),
               !.b_datasets = Put(@, 1, [id |-> 1]),
               !.datapoints = Put(@, 1, Datapoint_new(1, 1)),
               !.b_datapoints = Put(@, 1, Datapoint_new(1, 1))]
  /\ call = NoCall
  /\ last = NoLast
  /\ now = 0
  /\ next_span_id = 1
  /\ next_item_id = 1
  /\ next_datapoint_id = 2
  /\ dirty = FALSE
  /\ lease = NoHolder
  /\ reqs = [r \in Reqs |-> IdleReq]
  /\ bus = EmptyBus
  /\ subs = [s \in Subs |-> NoSub]
  /\ sent = <<>>
  /\ reads = [s \in Subs |-> NoResponse]
  /\ orgs = OrgStoreManager_single
  /\ host = Host_new

\* Write lease: two request tasks run the handlers that mutate the store and emit
\* events, among them the two that work through a list; the backend answers Ok
NextLease ==
  \/ \E r \in Reqs : create_span(r, 1, "llm_call")
  \/ \E r \in Reqs, id \in SpanIds : complete_span(r, id, NoneOf)
  \/ \E r \in Reqs, d \in DatasetIds, ids \in {<<1>>, <<2, 1>>} :
       enqueue_datapoints(r, d, ids)
  \/ \E r \in Reqs : enqueue_loop(r)
  \/ \E r \in Reqs, d \in DatasetIds : import_file(r, d, <<"kind">>)
  \/ \E r \in Reqs : import_lock(r)
  \/ \E r \in Reqs : import_loop(r)
  \/ \E r \in Reqs : handler_save(r)
  \/ \E r \in Reqs : handler_return(r)
  \/ \E r \in Reqs : handler_publish(r)
  \/ BackendReply(TRUE)

SpecLease == InitLease /\ [][NextLease]_vars

\* the events the bus is driven with
BusEvents == {[type |-> "cleared"], [type |-> "span_deleted", span_id |-> 1]}

\* Event bus: subscribers join at any time and read at any pace while events are
\* published
NextBus ==
  \/ \E s \in Subs : Subscribe(s)
  \/ \E e \in BusEvents : Publish(e)
  \/ \E s \in Subs : Recv(s)

SpecBus == Init /\ [][NextBus]_vars

\* SSE: clients of GET /events connect at any time and poll their stream at any
\* pace while events are published
NextSse ==
  \/ \E s \in Subs : Subscribe(s)
  \/ \E e \in BusEvents : Publish(e)
  \/ \E s \in Subs : events_poll(s)

SpecSse == Init /\ [][NextSse]_vars

\* a manager of either mode
InitOrg ==
  /\ store = EmptyStore
  /\ call = NoCall
  /\ last = NoLast
  /\ now = 0
  /\ next_span_id = 1
  /\ next_item_id = 1
  /\ next_datapoint_id = 1
  /\ dirty = FALSE
  /\ lease = NoHolder
  /\ reqs = [r \in Reqs |-> IdleReq]
  /\ bus = EmptyBus
  /\ subs = [s \in Subs |-> NoSub]
  /\ sent = <<>>
  /\ reads = [s \in Subs |-> NoResponse]
  /\ orgs \in {OrgStoreManager_single, OrgStoreManager_per_org}
  /\ host = Host_new

\* Store resolution: request tasks ask the manager for the store of an
\* organisation at any time, also while another task is opening one
NextOrg ==
  \/ \E r \in Reqs, o \in OrgIds : OrgStoreManager_get(r, o)
  \/ \E r \in Reqs, ok \in BOOLEAN : get_open(r, ok)
  \/ \E r \in Reqs : get_insert(r)
  \/ \E r \in Reqs : get_done(r)

SpecOrg == InitOrg /\ [][NextOrg]_vars

\* a store opened on an empty backend of either type
InitDataset ==
  /\ store \in {EmptyStore, [EmptyStore EXCEPT !.backend_type = "turbopuffer"]}
  /\ call = NoCall
  /\ last = NoLast
  /\ now = 0
  /\ next_span_id = 1
  /\ next_item_id = 1
  /\ next_datapoint_id = 1
  /\ dirty = FALSE
  /\ lease = NoHolder
  /\ reqs = [r \in Reqs |-> IdleReq]
  /\ bus = EmptyBus
  /\ subs = [s \in Subs |-> NoSub]
  /\ sent = <<>>
  /\ reads = [s \in Subs |-> NoResponse]
  /\ orgs = OrgStoreManager_single
  /\ host = Host_new

\* Datasets: datasets are created, filled with datapoints, their datapoints
\* enqueued for review, and deleted; the backend answers Ok
NextDataset ==
  \/ \E d \in DatasetIds : SaveDataset(d)
  \/ \E d \in DatasetIds : SaveDatapoint(d)
  \/ \E dp \in 1..MaxDatapoints : EnqueueItem(dp)
  \/ \E d \in DatasetIds : DeleteDataset(d)
  \/ BackendReply(TRUE)

SpecDataset == InitDataset /\ [][NextDataset]_vars

\* Upserts: datasets are created, filled with datapoints, their datapoints
\* enqueued for review, and saved again under their id; the backend answers Ok
NextUpsert ==
  \/ \E d \in DatasetIds : SaveDataset(d)
  \/ \E d \in DatasetIds : SaveDatapoint(d)
  \/ \E dp \in 1..MaxDatapoints : EnqueueItem(dp)
  \/ \E d \in DatasetIds : UpdateDataset(d)
  \/ BackendReply(TRUE)

SpecUpsert == InitDataset /\ [][NextUpsert]_vars

\* Migrations: the database file is opened and migrated statement by statement,
\* and the process may be killed at any point and started again
NextMigrate ==
  \/ SqliteBackend_open
  \/ migrate_statement
  \/ migrate_record
  \/ crash

SpecMigrate == Init /\ [][NextMigrate]_vars

\* Restart: spans, traces and datasets are written, and the store is opened
\* again on a backend any of whose loads may fail; writes are answered Ok
NextOpen ==
  \/ Insert(1, "llm_call")
  \/ SaveTrace(1)
  \/ \E d \in DatasetIds : SaveDataset(d)
  \/ BackendReply(TRUE)
  \/ \E failing \in SUBSET {LoadOrder[i] : i \in 1..Len(LoadOrder)} : Reopen(failing)

SpecOpen == Init /\ [][NextOpen]_vars

\* ---- POST /api/spans with and without a parent id, one request at a time
NextParent ==
  \/ \E t \in TraceIds : create_span("a", t, "llm_call")
  \/ \E t \in TraceIds, p \in SpanIds : create_span_with_parent("a", t, "llm_call", p)
  \/ \E ok \in BOOLEAN : BackendReply(ok)
  \/ handler_return("a")
  \/ handler_publish("a")

SpecParent == Init /\ [][NextParent]_vars

\* ---- traces with and without spans: saved, emptied span by span, deleted
\* through the handler; the store methods run while no handler holds the lease
NextTrace ==
  \/ \E t \in TraceIds : lease = NoHolder /\ SaveTrace(t)
  \/ \E t \in TraceIds : lease = NoHolder /\ Insert(t, "llm_call")
  \/ \E id \in SpanIds : lease = NoHolder /\ DeleteSpan(id)
  \/ \E t \in TraceIds : delete_trace("a", t)
  \/ delete_trace_respond("a")
  \/ \E ok \in BOOLEAN : BackendReply(ok)

SpecTrace == Init /\ [][NextTrace]_vars

\* ---- every kind of entity is written, spans are completed, failed and
\* deleted, the store is cleared; every backend call answers Ok
NextReopen ==
  \/ Insert(1, "llm_call")
  \/ \E id \in SpanIds : CompleteSpan(id, SomeOf("out"))
  \/ \E id \in SpanIds : FailSpan(id, "err")
  \/ \E id \in SpanIds : DeleteSpan(id)
  \/ SaveTrace(1)
  \/ SaveDataset(1)
  \/ SaveDatapoint(1)
  \/ \E dp \in 1..MaxDatapoints : EnqueueItem(dp)
  \/ Clear
  \/ BackendReply(TRUE)

SpecReopen == Init /\ [][NextReopen]_vars

\* ---- a dataset is created, filled, enqueued and deleted while one request
\* imports a file into it and another enqueues its datapoints; the store
\* methods called directly stand for handlers that hold the write lease for
\* the whole call, so they start only while nobody holds it, and a handler
\* takes the lease only while no such call is in progress
NextImport ==
  \/ lease = NoHolder /\ SaveDataset(1)
  \/ lease = NoHolder /\ SaveDatapoint(1)
  \/ lease = NoHolder /\ DeleteDataset(1)
  \/ call.op = "none" /\ import_file("a", 1, <<"kind">>)
  \/ call.op = "none" /\ import_lock("a")
  \/ import_loop("a")
  \/ call.op = "none" /\ enqueue_datapoints("b", 1, <<1>>)
  \/ enqueue_loop("b")
  \/ \E r \in Reqs : handler_publish(r)
  \/ \E r \in Reqs : handler_save(r)
  \/ \E r \in Reqs : handler_return(r)
  \/ BackendReply(TRUE)

SpecImport == Init /\ [][NextImport]_vars

\* ---- cloud mode: requests of two organisations create, list and clear spans
NextTenants ==
  \/ \E ctx \in Contexts, t \in TraceIds : create_span_as(ctx, t)
  \/ \E ctx \in Contexts : list_spans(ctx)
  \/ \E ctx \in Contexts : clear_all_traces(ctx)
  \/ BackendReply(TRUE)

SpecTenants == Init /\ [][NextTenants]_vars

\* Daemon: both servers accept connections whose handlers return at any time
\* or never, the signal arrives at any time, and time passes
NextDaemon ==
  \/ \E c \in Components : server_accept(c)
  \/ \E c \in Components : server_handler_done(c)
  \/ daemon_signal
  \/ \E c \in Components : server_shutdown(c)
  \/ \E c \in Components : server_stopped(c)
  \/ daemon_tick
  \/ daemon_exit

SpecDaemon == Init /\ [][NextDaemon]_vars

\* the same with time passing and every task that can run eventually running;
\* nothing makes a handler return
SpecDaemonFair ==
  /\ SpecDaemon
  /\ WF_vars(daemon_tick)
  /\ WF_vars(daemon_exit)
  /\ \A c \in Components : WF_vars(server_shutdown(c)) /\ WF_vars(server_stopped(c))

\* the daemon with a client that may call POST /shutdown; fairness as above:
\* nothing makes a signal arrive or a handler return
NextDaemonApi ==
  \/ NextDaemon
  \/ post_shutdown

SpecDaemonApi == Init /\ [][NextDaemonApi]_vars

SpecDaemonApiFair ==
  /\ SpecDaemonApi
  /\ WF_vars(daemon_tick)
  /\ WF_vars(daemon_exit)
  /\ \A c \in Components : WF_vars(server_shutdown(c)) /\ WF_vars(server_stopped(c))

\* Supervised daemon: as above, and a server may fail at any time, after which
\* its supervisor sleeps and restarts it
NextSupervised ==
  \/ NextDaemonApi
  \/ \E c \in Components : server_failed(c)
  \/ \E c \in Components : supervisor_sleep(c)
  \/ \E c \in Components : supervisor_restart(c)

SpecSupervised == Init /\ [][NextSupervised]_vars

\* the hashes and the contents files are saved with
Hashes == {"h1", "h2"}
Contents == {"b", "b2"}

\* File contents: blobs are saved under either hash with either content, on
\* either backend; every backend call may answer Ok or Err
NextFiles ==
  \/ \E h \in Hashes, b \in Contents : SaveFileContent(h, b)
  \/ \E ok \in BOOLEAN : BackendReply(ok)

SpecFiles == InitDataset /\ [][NextFiles]_vars

\* Transition requests: spans and queue items are created, and a request task
\* asks for any transition of any id, stored or not, in any status; the backend
\* answers Ok
NextTransition ==
  \/ Insert(1, "llm_call")
  \/ SaveQueueItem
  \/ \E id \in SpanIds : complete_span_or_reject("a", id, NoneOf)
  \/ \E id \in SpanIds : fail_span("a", id, "err")
  \/ \E id \in ItemIds : claim_queue_item("a", id, "u1")
  \/ \E id \in ItemIds, e \in OptionOf(Edits) : submit_queue_item("a", id, e)
  \/ submit_complete("a")
  \/ transition_respond("a")
  \/ BackendReply(TRUE)

SpecTransition == InitLease /\ [][NextTransition]_vars

\* Proxy: request tasks proxy requests whose body can or cannot be read, to an
\* upstream that fails, answers 200 or 500, with or without token usage, while
\* clients may go away; the backend answers Ok
NextProxy ==
  \/ \E r \in Reqs, body_ok \in BOOLEAN, p \in Providers : proxy_handler(r, body_ok, p)
  \/ \E r \in Reqs : proxy_send(r)
  \/ \E r \in Reqs, up \in UpstreamResults : proxy_result(r, up)
  \/ \E r \in Reqs : proxy_respond(r)
  \/ \E r \in Reqs : proxy_done(r)
  \/ \E r \in Reqs : proxy_cancel(r)
  \/ BackendReply(TRUE)

SpecProxy == Init /\ [][NextProxy]_vars

\* the same with every task that can run eventually running, the backend and
\* the upstream eventually answering
SpecProxyFair ==
  /\ SpecProxy
  /\ WF_vars(BackendReply(TRUE))
  /\ \A r \in Reqs :
       /\ WF_vars(proxy_send(r))
       /\ WF_vars(\E up \in UpstreamResults : proxy_result(r, up))
       /\ WF_vars(proxy_respond(r))
       /\ WF_vars(proxy_done(r))

\* ---- the proxy with a client of /api/events that has subscribed before the
\* first span exists
NextProxyEvents ==
  \/ next_span_id = 1 /\ Subscribe("s1")
  \/ NextProxy

SpecProxyEvents == Init /\ [][NextProxyEvents]_vars

\* Authentication: requests with every combination of Authorization header,
\* cookie and query string, in local and in cloud mode
NextAuth ==
  \/ \E m \in BOOLEAN, a \in AuthHeaders, c \in CookieHeaders, q \in QueryStrings :
       auth_request("a", m, a, c, q)
  \/ auth_done("a")

SpecAuth == Init /\ [][NextAuth]_vars

\* Cross-node bus: events are published while Redis answers Ok or Err, the
\* listener connects, reads, fails and sleeps, its connection may be closed, and
\* subscribers come and go
NextRedis ==
  \/ RedisEventBus_publish([type |-> "cleared"])
  \/ \E ok \in BOOLEAN : publish_reply(ok)
  \/ \E ok \in BOOLEAN : run_subscriber_connect(ok)
  \/ \E ok \in BOOLEAN : run_subscriber_message(ok)
  \/ run_subscriber_end
  \/ start_listener_wake
  \/ \E s \in Subs : RedisEventBus_subscribe(s)
  \/ \E s \in Subs : EventSubscriber_drop(s)
  \/ Tick

SpecRedis == Init /\ [][NextRedis]_vars

\* a cloud deployment whose AuthStore holds the three keys
InitAuthStore ==
  /\ store = EmptyStore
  /\ call = NoCall
  /\ last = NoLast
  /\ now = 0
  /\ next_span_id = 1
  /\ next_item_id = 1
  /\ next_datapoint_id = 1
  /\ dirty = FALSE
  /\ lease = NoHolder
  /\ reqs = [r \in Reqs |-> IdleReq]
  /\ bus = EmptyBus
  /\ subs = [s \in Subs |-> NoSub]
  /\ sent = <<>>
  /\ reads = [s \in Subs |-> NoResponse]
  /\ orgs = OrgStoreManager_single
  /\ host = [Host_new EXCEPT !.api_keys = AuthStoreRows]

\* Stored API keys: requests present stored keys, as issued or with a wrong
\* tail, while time passes and the spawned updates run at any time
NextAuthStore ==
  \/ \E a \in StoreAuthHeaders : auth_store_request("a", a)
  \/ auth_done("a")
  \/ \E id \in DOMAIN AuthStoreRows, ok \in BOOLEAN : update_api_key_last_used(id, ok)
  \/ Tick

SpecAuthStore == InitAuthStore /\ [][NextAuthStore]_vars

\* ------------------------------------------------------------------ claims

StoredSpans == store.memory.spans
TransitionOps == {"complete_span", "complete_span_with_kind", "fail_span"}
Idle == call.op = "none"

\* C1: once a stored span is completed or failed, no step changes its status,
\* ended_at, output or kind, and a complete_span, complete_span_with_kind or
\* fail_span call on it returns none without reaching the backend
C1_OneTerminalTransition ==
  [][\A id \in SpanIds :
       (id \in DOMAIN StoredSpans /\ is_terminal(StoredSpans[id].status)) =>
         /\ id \in DOMAIN store'.memory.spans
         /\ store'.memory.spans[id] = StoredSpans[id]
         /\ (Idle /\ last' # last /\ last'.op \in TransitionOps
               /\ last'.key = <<"span", id>>)
              => (last'.ret = RetNone /\ call'.op = "none" /\ store' = store)]_vars

\* a transition attempt on a terminal span has returned none
C1_Witness ==
  /\ Idle
  /\ last.op \in TransitionOps
  /\ last.ret = RetNone
  /\ last.key[2] \in DOMAIN StoredSpans
  /\ StoredSpans[last.key[2]].status = "completed"
  /\ now > 0

\* C2: for every trace t, spans_for_trace(t) lists exactly the ids of the stored
\* spans whose trace_id is t, each once
C2_TraceIndexExact ==
  \A t \in TraceIds :
    LET ids == spans_for_trace(store.memory, t)
    IN /\ Range(ids) = {id \in DOMAIN StoredSpans : StoredSpans[id].trace_id = t}
       /\ \A i, j \in 1..Len(ids) : ids[i] = ids[j] => i = j

\* a span has been deleted from a trace that still holds another span
C2_Witness ==
  /\ Idle
  /\ last.op = "delete_span"
  /\ last.ret = RetBool(TRUE)
  /\ \E t \in TraceIds : Len(spans_for_trace(store.memory, t)) = 1
                          /\ \E id \in DOMAIN StoredSpans :
                               StoredSpans[id].trace_id = t /\ id > last.key[2]

\* C3: every stored span has ended_at present exactly when its status is
\* completed or failed, and the span insert has just stored is running with
\* ended_at absent
C3_EndedIffTerminal ==
  /\ \A id \in DOMAIN StoredSpans :
       (StoredSpans[id].ended_at # NoneOf) <=> is_terminal(StoredSpans[id].status)
  /\ call.op = "insert" => (call.arg.status = "running" /\ call.arg.ended_at = NoneOf)

\* a span completed through complete_span_with_kind is stored next to a running one
C3_Witness ==
  /\ Idle
  /\ last.op = "complete_span_with_kind"
  /\ last.ret.tag = "span"
  /\ \E id \in DOMAIN StoredSpans : StoredSpans[id].status = "running"
  /\ \E id \in DOMAIN StoredSpans : StoredSpans[id].ended_at # NoneOf

\* the status claim_queue_item and complete_queue_item require, and the one they set
QueueOps == {"claim_queue_item", "complete_queue_item"}
RequiredStatus(op) == IF op = "claim_queue_item" THEN "pending" ELSE "claimed"
ResultStatus(op) == IF op = "claim_queue_item" THEN "claimed" ELSE "completed"

\* C4: a claim or complete call on a queue item succeeds exactly when the item is
\* stored with the status the call requires (pending for claim, claimed for
\* complete) and then returns the item in the next status with nothing else but
\* the claimant, claim time and edited data changed; every other call returns
\* none and leaves the store unchanged; a claimant, once set, is never replaced
C4_QueueItemTransitions ==
  [][\A id \in ItemIds :
       /\ (Idle /\ last' # last /\ last'.op \in QueueOps /\ last'.key = <<"item", id>>)
            => IF id \in DOMAIN store.queue_items
                  /\ store.queue_items[id].status = RequiredStatus(last'.op)
               THEN /\ last'.ret.tag = "item"
                    /\ last'.ret.item.status = ResultStatus(last'.op)
                    /\ last'.ret.item.id = id
                    /\ last'.ret.item.created_at = store.queue_items[id].created_at
                    /\ last'.op = "complete_queue_item" =>
                         /\ last'.ret.item.claimed_by = store.queue_items[id].claimed_by
                         /\ last'.ret.item.claimed_at = store.queue_items[id].claimed_at
               ELSE last'.ret = RetNone /\ call'.op = "none" /\ store' = store
       /\ (id \in DOMAIN store.queue_items /\ id \in DOMAIN store'.queue_items
            /\ store.queue_items[id].claimed_by # NoneOf)
            => store'.queue_items[id].claimed_by = store.queue_items[id].claimed_by
       /\ (call.op \in QueueOps /\ call.arg.id = id /\ id \in DOMAIN store'.queue_items)
            => store'.queue_items[id] = call.arg]_vars

\* a second claim, by another user, of an item already claimed has returned none
C4_Witness ==
  /\ Idle
  /\ last.op = "claim_queue_item"
  /\ last.ret = RetNone
  /\ last.key[2] \in DOMAIN store.queue_items
  /\ store.queue_items[last.key[2]].status = "claimed"
  /\ store.queue_items[last.key[2]].claimed_by = SomeOf("u1")
  /\ \E id \in DOMAIN store.queue_items : store.queue_items[id].status = "completed"

\* the in-memory effect and the return value each store method must show once it
\* has returned
Postcondition(l) ==
  LET id == l.key[2]
  IN CASE l.op = "insert" ->
            /\ id \in DOMAIN StoredSpans
            /\ StoredSpans[id].status = "running"
            /\ l.ret = RetId(id)
       [] l.op \in TransitionOps ->
            /\ l.ret.tag = "span"
            /\ id \in DOMAIN StoredSpans
            /\ StoredSpans[id] = l.ret.span
            /\ is_terminal(l.ret.span.status)
       [] l.op = "delete_span" ->
            /\ id \notin DOMAIN StoredSpans
            /\ \A t \in TraceIds : id \notin Range(spans_for_trace(store.memory, t))
            /\ l.ret.tag = "bool"
       [] l.op = "delete_trace" ->
            /\ \A s \in DOMAIN StoredSpans : StoredSpans[s].trace_id # id
            /\ spans_for_trace(store.memory, id) = <<>>
            /\ id \notin DOMAIN store.trace_meta
            /\ l.ret.tag = "count"
       [] l.op = "save_trace" ->
            /\ id \in DOMAIN store.trace_meta
            /\ l.ret = RetUnit
       [] OTHER -> TRUE

\* C5: when a backend call of insert, complete_span, fail_span, delete_span,
\* delete_trace or save_trace has failed, the method has still returned its
\* ordinary value and memory holds the mutation: the inserted span, the span in
\* the returned terminal state, no deleted span or trace, the saved trace
C5_FailureKeepsMemory ==
  (Idle /\ last.backend = "failed") => Postcondition(last)

\* complete_span has returned the completed span although save_span failed, and
\* the backend still holds the running row
C5_Witness ==
  /\ Idle
  /\ last.op = "complete_span"
  /\ last.backend = "failed"
  /\ last.ret.tag = "span"
  /\ last.key[2] \in DOMAIN store.b_spans
  /\ store.b_spans[last.key[2]].status = "running"

\* C6: while a store method waits for the backend, memory already holds the
\* mutation the method makes
C6_MemoryBeforeBackend ==
  call.op # "none" =>
    CASE call.await = "save_span" ->
           call.arg.id \in DOMAIN StoredSpans /\ StoredSpans[call.arg.id] = call.arg
      [] call.await = "delete_span" -> call.arg \notin DOMAIN StoredSpans
      [] call.await \in {"delete_trace_spans", "delete_trace"} ->
           call.arg \notin DOMAIN store.memory.traces /\ call.arg \notin DOMAIN store.trace_meta
      [] call.await = "clear_spans" -> StoredSpans = EmptyMap
      [] call.await = "save_trace" ->
           call.arg.id \in DOMAIN store.trace_meta /\ store.trace_meta[call.arg.id] = call.arg
      [] call.await = "save_queue_item" ->
           call.arg.id \in DOMAIN store.queue_items
           /\ store.queue_items[call.arg.id] = call.arg

\* the entities a restart would load are the entities memory holds
BackendAgrees ==
  LET reopened == PersistentStore_open(store)
  IN /\ reopened.memory.spans = store.memory.spans
     /\ reopened.trace_meta = store.trace_meta
     /\ reopened.queue_items = store.queue_items

\* C7: when a store method returns after a successful backend write that follows
\* a failed one, a store reopened from the backend holds the entities of memory
C7_NextWriteConverges ==
  (Idle /\ last.backend = "ok" /\ last.after_failure) => BackendAgrees

\* C8: a handler that is about to send an event does not hold the write lease
C8_PublishAfterRelease ==
  \A r \in Reqs : (reqs[r].h # "idle" /\ reqs[r].at = "publish") => lease # r

\* C9: the read a subscriber makes after it received SpanCompleted for a span
\* answers 200 with that span completed
C9_ReadReportsCompleted ==
  \A s \in Subs :
    (subs[s].active /\ subs[s].got.type = "span_completed" /\ reads[s] # NoResponse)
      => (reads[s].status = 200 /\ reads[s].span.status = "completed")

\* C9, amended: the read a subscriber makes after it received SpanCompleted for a
\* span answers either 200 with exactly the completed span the event carried, or
\* 404 because the span has been deleted since; it never shows the span running
\* or failed
C9_ReadCompletedOrGone ==
  \A s \in Subs :
    (subs[s].active /\ subs[s].got.type = "span_completed" /\ reads[s] # NoResponse)
      => \/ reads[s].status = 404
         \/ /\ reads[s].status = 200
            /\ reads[s].span = subs[s].got.span
            /\ reads[s].span.status = "completed"

\* a subscriber has read back a completed span and found it in place
C9_Witness ==
  /\ subs["s1"].active
  /\ subs["s1"].got.type = "span_completed"
  /\ reads["s1"].status = 200
  /\ reads["s1"].span.status = "completed"

C11_LagLosesOnlyOverwritten ==
  /\ [](\A s \in Subs : (subs[s].active /\ subs[s].next < Len(sent))
                           => ENABLED events_poll(s))
  /\ [][\A s \in Subs : subs[s].active =>
          /\ subs'[s].active
          /\ subs'[s] # subs[s] =>
               IF events_filter_map(subs'[s].got) = NoneOf
               THEN /\ EventSubscriber_recv(subs'[s].got) = NoneOf
                    /\ subs'[s].next > subs[s].next
                    /\ \A p \in (subs[s].next + 1)..subs'[s].next :
                         p <= Len(sent) - BusCapacity
                    /\ \A p \in (subs'[s].next + 1)..Len(sent) :
                         bus.buf[p - Oldest(bus)] = sent[p]
               ELSE /\ events_filter_map(subs'[s].got)
                         = {[data |-> sent[subs[s].next + 1]]}
                    /\ EventSubscriber_recv(subs'[s].got)
                         = {sent[subs[s].next + 1]}
                    /\ subs'[s].next = subs[s].next + 1]_vars

\* a subscriber that lost events to the overflow has since been handed the last
\* event published
C11_Witness ==
  /\ Len(sent) = MaxEvents
  /\ subs["s1"].active /\ subs["s1"].missed > 0
  /\ subs["s1"].next = MaxEvents
  /\ events_filter_map(subs["s1"].got) = {[data |-> sent[MaxEvents]]}

\* C12: for every organisation at most one store is created and every caller of
\* get for that organisation is handed the same store
C12_OneStorePerOrg ==
  \A o \in OrgIds :
    /\ Cardinality(orgs.created[o]) <= 1
    /\ Cardinality(orgs.handed[o]) <= 1

\* what a store holds of a trace: its metadata, or a span with its trace_id
HoldsTrace(S, t) ==
  \/ t \in DOMAIN S.trace_meta
  \/ \E id \in DOMAIN S.memory.spans : S.memory.spans[id].trace_id = t
  \/ spans_for_trace(S.memory, t) # <<>>

\* what the backend holds of a trace: its row, or a span row with its trace_id
BackendHoldsTrace(S, t) ==
  \/ t \in DOMAIN S.b_traces
  \/ \E id \in DOMAIN S.b_spans : S.b_spans[id].trace_id = t

\* nothing of the trace is left in memory, in the backend, or in a store
\* reopened from the backend
TraceGone(S, t) ==
  /\ ~HoldsTrace(S, t)
  /\ ~BackendHoldsTrace(S, t)
  /\ ~HoldsTrace(PersistentStore_open(S), t)

C14_DeleteDatasetCascades ==
  (Idle /\ last.op = "delete_dataset") =>
    LET d == last.key[2]
        reopened == PersistentStore_open(store)
    IN \A S \in {store, reopened} :
         /\ \A x \in DOMAIN S.datapoints : S.datapoints[x].dataset_id # d
         /\ \A x \in DOMAIN S.queue_items : S.queue_items[x].dataset_id # d
         /\ \A x \in DOMAIN S.b_datapoints : S.b_datapoints[x].dataset_id # d
         /\ \A x \in DOMAIN S.b_queue_items : S.b_queue_items[x].dataset_id # d

\* C15: a transition request is answered 404 when its span or queue item is not
\* stored, 409 when the entity is stored in a status that forbids the transition
\* (a terminal span; an item not pending for claim, not claimed for submit), with
\* the store left as it was, and 200 otherwise
C15_TransitionErrors ==
  [][\A r \in Reqs :
       (reqs'[r] # reqs[r] /\ reqs'[r].h \in TransitionHandlers
          /\ reqs'[r].at = "answered") =>
         LET q == reqs'[r]
             isSpan == q.h \in {"complete_span", "fail_span"}
             present == IF isSpan THEN q.id \in DOMAIN store.memory.spans
                        ELSE q.id \in DOMAIN store.queue_items
             allowed ==
               /\ present
               /\ IF isSpan THEN ~is_terminal(store.memory.spans[q.id].status)
                  ELSE store.queue_items[q.id].status =
                         (IF q.h = "claim_queue_item" THEN "pending" ELSE "claimed")
         IN /\ ~present => q.status = 404
            /\ (present /\ ~allowed) => (q.status = 409 /\ store' = store)
            /\ allowed => q.status = 200]_vars

\* C16: every span the proxy has inserted is eventually completed or failed
C16_ProxySpanEventuallyTerminal ==
  \A id \in SpanIds :
    (id \in DOMAIN store.memory.spans)
      ~> (id \in DOMAIN store.memory.spans /\ is_terminal(store.memory.spans[id].status))

\* the message fail_span is called with at each stage
StageMessage(stage) ==
  CASE stage = "body" -> "Failed to read body"
    [] stage = "send" -> "Request failed"
    [] stage = "read" -> "Failed to read response"

\* C17: a proxied request that failed at reading the request body, at reaching the
\* upstream or at reading the upstream response is answered 502 and its span is
\* failed with the message of that stage
C17_StageFailureFailsSpan ==
  \A r \in Reqs :
    (reqs[r].h = "proxy" /\ reqs[r].at = "done" /\ reqs[r].stage # "none") =>
      /\ reqs[r].response = 502
      /\ \E id \in reqs[r].span_id :
           /\ id \in DOMAIN store.memory.spans
           /\ store.memory.spans[id].status = "failed"
           /\ store.memory.spans[id].error = SomeOf(StageMessage(reqs[r].stage))

\* C18: a proxied request whose upstream answered 2xx with token usage leaves its
\* span completed with a kind that carries the token counts; one whose upstream
\* answered non-2xx leaves its span failed with the HTTP status
C18_TokensOnFinalKind ==
  \A r \in Reqs :
    (reqs[r].h = "proxy" /\ reqs[r].at = "done" /\ reqs[r].stage = "none") =>
      \E id \in reqs[r].span_id :
        LET span == store.memory.spans[id]
            tokens == extract_tokens(reqs[r].up.body, reqs[r].provider)
        IN IF is_success(reqs[r].up.status)
           THEN /\ span.status = "completed"
                /\ (tokens[1] # NoneOf \/ tokens[2] # NoneOf) => span.kind = "llm_call_tokens"
           ELSE /\ span.status = "failed"
                /\ span.error = SomeOf("HTTP 500")

\* the context each source of a request yields when its credential is valid
HeaderCredential(q) ==
  {AuthContext_from_api_key("nil") :
     h \in {x \in q.auth_header : x.scheme = "Bearer" /\ x.token = GoodKey}}
    \cup {AuthContext_from_session(h.token.org, h.token.sub) :
            h \in {x \in q.auth_header : x.scheme = "Bearer" /\ x.token = GoodJwt}}
CookieCredential(q) ==
  {AuthContext_from_session(GoodJwt.org, GoodJwt.sub) :
     c \in {x \in q.cookie_header :
              \E i \in 1..Len(x) : x[i].name = "session" /\ x[i].value = SomeOf(GoodJwt)}}
QueryCredential(q) ==
  {AuthContext_from_session(GoodJwt.org, GoodJwt.sub) :
     c \in {x \in q.query_string :
              \E i \in 1..Len(x) : x[i].name = "token" /\ x[i].value = GoodJwt}}

\* C19: in cloud mode a request is authenticated with the context of the first of
\* Authorization header, session cookie and token query parameter that carries a
\* valid credential, and is rejected only when none of them does
C19_FirstValidSourceWins ==
  \A r \in Reqs :
    (reqs[r].h = "auth" /\ ~reqs[r].local_mode) =>
      LET q == reqs[r]
          first == IF HeaderCredential(q) # {} THEN HeaderCredential(q)
                   ELSE IF CookieCredential(q) # {} THEN CookieCredential(q)
                   ELSE QueryCredential(q)
      IN IF first = {} THEN ~q.result.ok
         ELSE q.result.ok /\ q.result.ctx \in first

\* C20: in cloud mode a request whose Authorization header carries the registered
\* tw_sk_ key is accepted as that key; one that carries the tampered key, or no
\* credential at all, is answered 401; in local mode every request is accepted
\* with the local context
C20_ApiKeyAccepted ==
  \A r \in Reqs :
    reqs[r].h = "auth" =>
      LET q == reqs[r]
          bare == q.cookie_header = NoneOf /\ q.query_string = NoneOf
      IN /\ q.local_mode => q.result = AuthOk(AuthContext_local)
         /\ (~q.local_mode /\ q.auth_header = SomeOf([scheme |-> "Bearer", token |-> GoodKey]))
              => q.result = AuthOk(AuthContext_from_api_key("nil"))
         /\ (~q.local_mode /\ bare
              /\ q.auth_header = SomeOf([scheme |-> "Bearer", token |-> TamperedKey]))
              => (~q.result.ok /\ q.result.status = 401)
         /\ (~q.local_mode /\ bare /\ q.auth_header = NoneOf)
              => (~q.result.ok /\ q.result.status = 401)

\* C21: a request authenticated with an API key whose expires_at lies in the
\* past is rejected with the ExpiredApiKey error
C21_ExpiredKeyError ==
  \A r \in Reqs :
    (/\ reqs[r].h = "auth"
     /\ "t" \in DOMAIN reqs[r]
     /\ reqs[r].auth_header = SomeOf([scheme |-> "Bearer", token |-> ExpiringKey])
     /\ \E e \in host.api_keys[2].expires_at : e < reqs[r].t)
    => reqs[r].result = AuthErr("ExpiredApiKey")

\* C22: last_used_at of an API key changes only when a request has verified
\* that key; a request whose key fails verification never updates it
C22_LastUsedOnlyAfterVerification ==
  [][\A id \in DOMAIN host.api_keys :
       host'.api_keys[id].last_used_at # host.api_keys[id].last_used_at
         => id \in host.verified]_vars

\* C23: on the cross-node bus every publish sends the event on the local
\* channel before it returns, whether Redis answered Ok or Err
C23_PublishBroadcastsLocally ==
  [][host'.redis.returned > host.redis.returned
       => host'.redis.local_sends > host.redis.local_sends]_vars

\* C24: the listener task of the cross-node bus never exits (nothing in the
\* process shuts it down), and after an error it connects again no earlier
\* than ReconnectDelay later
C24_ListenerNeverExits ==
  /\ [](host.redis.listener # "exited")
  /\ [][(host.redis.listener = "sleeping" /\ host'.redis.listener = "connecting")
          => now >= host.redis.wake]_vars

\* C25: subscriber_count() of the cross-node bus equals the number of open
\* receivers
C25_SubscriberCountIsOpenReceivers ==
  RedisEventBus_subscriber_count = receiver_count(subs)

\* C26: on every backend the first writer of a hash wins: once load_file_content
\* of a hash answers a content, no later save_file_content of that hash
\* changes the answer
C26_FirstWriterWins ==
  [][\A h \in Hashes :
       load_file_content(store, h) # NoneOf
         => load_file_content(store', h) = load_file_content(store, h)]_vars

\* C27: a backend save of a dataset whose id is already persisted overwrites
\* that row and leaves every other persisted row as it was: the other
\* datasets, and the datapoints and queue items that reference the dataset
C27_UpsertInPlace ==
  [][(/\ call.op = "save_dataset"
      /\ call.arg.id \in DOMAIN store.b_datasets
      /\ call'.op = "none")
     => /\ store'.b_datasets = Put(store.b_datasets, call.arg.id, call.arg)
        /\ store'.b_datapoints = store.b_datapoints
        /\ store'.b_queue_items = store.b_queue_items
        /\ store'.b_spans = store.b_spans
        /\ store'.b_traces = store.b_traces]_vars

\* the objects the batch of a version makes
MigrationObjects(v) == {MIGRATIONS[v][i].object : i \in 1..Len(MIGRATIONS[v])}

\* C28: a migration and its row in the migrations table take effect together:
\* when no process has the file open, every version is either recorded with
\* all its objects made or not recorded with none of them made; and no open
\* fails
C28_MigrationsAtomic ==
  /\ host.db.at # "failed"
  /\ host.db.at = "closed" =>
       \A v \in 1..Len(MIGRATIONS) :
         \/ v \in host.db.migrations /\ MigrationObjects(v) \subseteq host.db.schema
         \/ v \notin host.db.migrations /\ MigrationObjects(v) \cap host.db.schema = {}

\* C29: PersistentStore::open succeeds on an empty backend and when only loads
\* of optional collections fail; it fails exactly when the load of the spans
\* or of the traces fails
C29_OpenFailsOnlyOnCore ==
  last.op = "open" => (last.ret.ok <=> last.ret.failing \cap {"spans", "traces"} = {})

\* C30: once shutdown is signalled the daemon exits, within SHUTDOWN_TIMEOUT
\* and with the store released, whether or not the servers have stopped; a
\* server that has seen the signal accepts no connection; and main does not
\* leave before the servers have drained unless the timeout is up
C30_ShutdownBounded ==
  /\ (host.daemon.phase = "stopping") ~> (host.daemon.phase = "exited")
  /\ [](host.daemon.phase = "exited"
          => host.daemon.released /\ host.daemon.elapsed <= SHUTDOWN_TIMEOUT)
  /\ [][\A c \in Components :
          host'.daemon.inflight[c] > host.daemon.inflight[c]
            => host.daemon.server[c] = "serving"]_vars
  /\ [][(host.daemon.phase = "stopping" /\ host'.daemon.phase = "exited")
          => \/ \A c \in Components : host.daemon.server[c] = "stopped"
             \/ host.daemon.elapsed = SHUTDOWN_TIMEOUT]_vars

\* the daemon has exited on the timeout while a server was still draining
C30_Witness ==
  /\ host.daemon.phase = "exited"
  /\ host.daemon.timed_out
  /\ host.daemon.released
  /\ host.daemon.elapsed = SHUTDOWN_TIMEOUT

\* C31: every stored span that has a parent_id has its parent stored, in the
\* same trace
C31_ParentInSameTrace ==
  \A id \in DOMAIN store.memory.spans :
    LET span == store.memory.spans[id]
    IN \A p \in span.parent_id :
         /\ p \in DOMAIN store.memory.spans
         /\ store.memory.spans[p].trace_id = span.trace_id

\* C32: a trace with metadata is found by get_trace and listed by list_traces
\* whether or not it has spans; deleting a span leaves the metadata of every
\* trace in place; and delete_trace answers 200 for a trace that was stored,
\* with or without spans
C32_TraceIndependentOfSpans ==
  /\ [](\A t \in DOMAIN store.trace_meta :
          /\ get_trace(store, t).status = 200
          /\ store.trace_meta[t] \in list_traces(store))
  /\ [][last'.op = "delete_span" => store'.trace_meta = store.trace_meta]_vars
  /\ [][\A t \in TraceIds :
          (reqs["a"] = IdleReq /\ reqs'["a"].h = "delete_trace" /\ reqs'["a"].id = t
           /\ t \in DOMAIN store.trace_meta)
            => reqs'["a"].status = 200]_vars

\* C33: whenever no store method is in progress and no backend call has
\* failed, PersistentStore::open on the backend gives the spans, traces,
\* datasets, datapoints and queue items the memory holds
C33_ReopenEqualsMemory ==
  (call.op = "none" /\ ~dirty) =>
    LET reopened == PersistentStore_open(store)
    IN /\ reopened.memory.spans = store.memory.spans
       /\ reopened.trace_meta = store.trace_meta
       /\ reopened.datasets = store.datasets
       /\ reopened.datapoints = store.datapoints
       /\ reopened.queue_items = store.queue_items

\* the span an event is about, and the place of the event in the life of a span
EventSpanId(e) == IF e.type = "span_deleted" THEN e.span_id ELSE e.span.id
EventRank(e) ==
  CASE e.type = "span_created" -> 0
    [] e.type \in {"span_completed", "span_failed"} -> 1
    [] OTHER -> 2

\* C34: the events of one span go out on the bus, and so reach every
\* subscriber, in the order created, completed or failed, deleted
C34_EventsInMutationOrder ==
  \A i, j \in 1..Len(sent) :
    (i < j /\ EventSpanId(sent[i]) = EventSpanId(sent[j]))
      => EventRank(sent[i]) < EventRank(sent[j])

\* C35: every stored datapoint belongs to a stored dataset, and every stored
\* queue item refers to a stored datapoint of its own, stored, dataset
C35_NoOrphans ==
  /\ \A dp \in DOMAIN store.datapoints :
       store.datapoints[dp].dataset_id \in DOMAIN store.datasets
  /\ \A q \in DOMAIN store.queue_items :
       LET item == store.queue_items[q]
       IN /\ item.dataset_id \in DOMAIN store.datasets
          /\ item.datapoint_id \in DOMAIN store.datapoints
          /\ store.datapoints[item.datapoint_id].dataset_id = item.dataset_id

\* C36: a list answered to a request of one organisation holds only spans
\* created by requests of that organisation, and a request of one
\* organisation removes no span created by another
C36_TenantIsolation ==
  /\ [](host.response.h = "list_spans"
          => \A span \in host.response.spans :
               host.owner[span.id] = host.response.ctx.org_id)
  /\ [][\A id \in DOMAIN store.memory.spans :
          (id \notin DOMAIN store'.memory.spans /\ host'.response.h = "clear_all_traces")
            => host.owner[id] = host'.response.ctx.org_id]_vars

\* the scope a route is documented to require
RequiredScope(h) == IF h = "list_spans" THEN "traces_read" ELSE "traces_write"

\* C37: a cloud-mode request whose context lacks the scope of its route is
\* answered 403 and leaves the store as it was
C37_ScopeEnforced ==
  [][(/\ call.op = "none"
      /\ (call'.op # "none" \/ host' # host)
      /\ ~has_scope(host'.response.ctx, RequiredScope(host'.response.h)))
       => (host'.response.status = 403 /\ store' = store)]_vars

\* C38: once the proxy has answered a request for which it inserted a span, a
\* subscriber that was there before the span has been sent span_created and,
\* after it, span_completed or span_failed for that span
C38_ProxySpansAnnounced ==
  \A r \in Reqs :
    (reqs[r].h = "proxy" /\ reqs[r].at = "done" /\ subs["s1"].active)
      => \A id \in reqs[r].span_id :
           \E i, j \in 1..Len(sent) :
             /\ i < j
             /\ sent[i].type = "span_created" /\ sent[i].span.id = id
             /\ sent[j].type \in {"span_completed", "span_failed"}
             /\ sent[j].span.id = id

\* C39: once the watch channel carries true, by a signal or by POST /shutdown,
\* the daemon eventually exits with the store released and the PID file dropped
C39_ApiShutdownExits ==
  host.daemon.shutdown ~> (host.daemon.phase = "exited" /\ host.daemon.released)

\* C40: once shutdown is requested a supervisor does not start its server
\* again, and a supervisor that is sleeping returns instead of sleeping on
C40_NoRestartDuringShutdown ==
  [][\A c \in Components :
       (host.daemon.shutdown /\ host.daemon.server[c] = "backoff"
        /\ host'.daemon.phase # "exited")
         => (/\ host'.daemon.server[c] \in {"backoff", "stopped"}
             /\ host'.daemon.sleep[c] = host.daemon.sleep[c])]_vars

====
